---- MODULE Spec2Model ----
(***************************************************************************)
(* Model of the corpus extraction engine of src/spider/corpus_lize.py.     *)
(*                                                                         *)
(* A Python value (what json.load returns, and what the extraction         *)
(* functions pass around) is a record of one fixed shape                   *)
(*     [t, s, n, k, v]                                                     *)
(* t is the Python type, s the characters of a str, n the value of an int, *)
(* k the keys of a dict in insertion order and v the values of a dict (in  *)
(* the order of k) or the items of a list.  A str is a sequence of         *)
(* one-character strings, so that concatenation, strip() and the substring *)
(* test are computed on characters.  A raised exception is the value of    *)
(* type "exc"; every function that can raise returns either its Python     *)
(* result or that value.                                                   *)
(***************************************************************************)
EXTENDS Integers, Sequences, FiniteSets, TLC

-----------------------------------------------------------------------------
(* Python values *)

Str(chars) == [t |-> "str", s |-> chars, n |-> 0, k |-> <<>>, v |-> <<>>]
Num(i) == [t |-> "num", s |-> <<>>, n |-> i, k |-> <<>>, v |-> <<>>]
Null == [t |-> "null", s |-> <<>>, n |-> 0, k |-> <<>>, v |-> <<>>]
List(items) == [t |-> "list", s |-> <<>>, n |-> 0, k |-> <<>>, v |-> items]
Dict(keys, vals) == [t |-> "dict", s |-> <<>>, n |-> 0, k |-> keys, v |-> vals]
EmptyDict == Dict(<<>>, <<>>)
EmptyStr == Str(<<>>)

\* a raised exception; what is the name of the exception class
Exc(what) == [t |-> "exc", s |-> <<what>>, n |-> 0, k |-> <<>>, v |-> <<>>]
TypeError == Exc("TypeError")
AttributeError == Exc("AttributeError")
JSONDecodeError == Exc("JSONDecodeError")

IsExc(x) == x.t = "exc"
IsStr(x) == x.t = "str"
IsDict(x) == x.t = "dict"
IsList(x) == x.t = "list"

\* bool(x)
Truthy(x) ==
    CASE x.t = "str" -> x.s # <<>>
      [] x.t = "num" -> x.n # 0
      [] x.t = "null" -> FALSE
      [] x.t = "list" -> x.v # <<>>
      [] x.t = "dict" -> x.k # <<>>
      [] OTHER -> FALSE

-----------------------------------------------------------------------------
(* str operations, on sequences of characters *)

Whitespace == {" ", "\t", "\n", "\r", "\f"}

RECURSIVE LStrip(_)
LStrip(s) == IF s # <<>> /\ Head(s) \in Whitespace THEN LStrip(Tail(s)) ELSE s

RECURSIVE RStrip(_)
RStrip(s) ==
    IF s # <<>> /\ s[Len(s)] \in Whitespace
    THEN RStrip(SubSeq(s, 1, Len(s) - 1))
    ELSE s

\* s.strip()
Strip(s) == RStrip(LStrip(s))

\* sub in s, both str
Contains(sub, s) ==
    \E i \in 0..(Len(s) - Len(sub)) : SubSeq(s, i + 1, i + Len(sub)) = sub

\* sep.join(parts), parts a sequence of character sequences
RECURSIVE Join(_, _)
Join(sep, parts) ==
    IF parts = <<>> THEN <<>>
    ELSE IF Len(parts) = 1 THEN parts[1]
    ELSE parts[1] \o sep \o Join(sep, Tail(parts))

Digit(d) == <<"0", "1", "2", "3", "4", "5", "6", "7", "8", "9">>[d + 1]

RECURSIVE NatToStr(_)
NatToStr(i) == IF i < 10 THEN <<Digit(i)>> ELSE NatToStr(i \div 10) \o <<Digit(i % 10)>>

\* str(i) of an int
IntToStr(i) == IF i < 0 THEN <<"-">> \o NatToStr(0 - i) ELSE NatToStr(i)

\* the character of a str as repr() writes it between the quotes
ReprChar(c) ==
    CASE c = "\n" -> <<"\\", "n">>
      [] c = "\t" -> <<"\\", "t">>
      [] c = "\r" -> <<"\\", "r">>
      [] c = "\\" -> <<"\\", "\\">>
      [] c = "'" -> <<"\\", "'">>
      [] OTHER -> <<c>>

RECURSIVE ReprChars(_)
ReprChars(s) == IF s = <<>> THEN <<>> ELSE ReprChar(Head(s)) \o ReprChars(Tail(s))

\* repr(x), as str() of a dict or a list writes its members
RECURSIVE PyRepr(_)

\* the members of a list or a dict from position i on, a dict's with its key
RECURSIVE ReprMembers(_, _)
ReprMembers(x, i) ==
    IF i > Len(x.v) THEN <<>>
    ELSE <<(IF x.t = "dict"
            THEN <<"'">> \o ReprChars(x.k[i]) \o <<"'", ":", " ">>
            ELSE <<>>) \o PyRepr(x.v[i])>> \o ReprMembers(x, i + 1)

PyRepr(x) ==
    CASE x.t = "str" -> <<"'">> \o ReprChars(x.s) \o <<"'">>
      [] x.t = "num" -> IntToStr(x.n)
      [] x.t = "null" -> <<"N", "o", "n", "e">>
      [] x.t \in {"list", "dict"} ->
           (IF x.t = "list" THEN <<"[">> ELSE <<"{">>)
           \o Join(<<",", " ">>, ReprMembers(x, 1))
           \o (IF x.t = "list" THEN <<"]">> ELSE <<"}">>)
      [] OTHER -> <<>>

\* str(x), the conversion an f-string applies to a field
PyStr(x) == IF x.t = "str" THEN x.s ELSE PyRepr(x)

-----------------------------------------------------------------------------
(* dict and container operations *)

HasKey(d, key) == \E i \in 1..Len(d.k) : d.k[i] = key

\* d[key] of a dict that has the key
Item(d, key) == d.v[CHOOSE i \in 1..Len(d.k) : d.k[i] = key]

\* d.get(key, default): only a dict has the method
DictGet(d, key, default) ==
    IF ~IsDict(d) THEN AttributeError
    ELSE IF HasKey(d, key) THEN Item(d, key) ELSE default

\* x in c raises: c is not a container, a str is asked for a non-str, or a
\* dict is asked for an unhashable key
InRaises(x, c) ==
    CASE c.t = "str" -> x.t # "str"
      [] c.t = "dict" -> x.t \in {"list", "dict"}
      [] c.t = "list" -> FALSE
      [] OTHER -> TRUE

\* x in c, when it does not raise: key of a dict, substring of a str, member
\* of a list
In(x, c) ==
    CASE c.t = "str" -> x.t = "str" /\ Contains(x.s, c.s)
      [] c.t = "dict" -> x.t = "str" /\ HasKey(c, x.s)
      [] c.t = "list" -> \E i \in 1..Len(c.v) : c.v[i] = x
      [] OTHER -> FALSE

\* c[key] for a str key: the value of a dict; a str or a list cannot be
\* indexed by a str
Subscript(c, key) == IF IsDict(c) THEN Item(c, key) ELSE TypeError

-----------------------------------------------------------------------------
(* the keys and the string literals of corpus_lize.py *)

K_text == <<"#", "t", "e", "x", "t">>
K_Sentence == <<"S", "e", "n", "t", "e", "n", "c", "e">>
K_Table == <<"T", "a", "b", "l", "e">>
K_TableRow == <<"T", "a", "b", "l", "e", "R", "o", "w">>
K_TableColumn == <<"T", "a", "b", "l", "e", "C", "o", "l", "u", "m", "n">>
K_ParagraphSentence == <<"P", "a", "r", "a", "g", "r", "a", "p", "h", "S", "e", "n", "t", "e", "n", "c", "e">>
K_List == <<"L", "i", "s", "t">>
K_ListSentence == <<"L", "i", "s", "t", "S", "e", "n", "t", "e", "n", "c", "e">>
K_TableStruct == <<"T", "a", "b", "l", "e", "S", "t", "r", "u", "c", "t">>
K_ParagraphNum == <<"P", "a", "r", "a", "g", "r", "a", "p", "h", "N", "u", "m">>
K_AtHide == <<"@", "H", "i", "d", "e">>
K_AtNum == <<"@", "N", "u", "m">>
K_AtOldStyle == <<"@", "O", "l", "d", "S", "t", "y", "l", "e">>
K_AtOldNum == <<"@", "O", "l", "d", "N", "u", "m">>
K_ArticleTitle == <<"A", "r", "t", "i", "c", "l", "e", "T", "i", "t", "l", "e">>
K_Paragraph == <<"P", "a", "r", "a", "g", "r", "a", "p", "h">>
K_AtDelete == <<"@", "D", "e", "l", "e", "t", "e">>
K_AtAbbrev == <<"@", "A", "b", "b", "r", "e", "v">>
K_LawBody == <<"L", "a", "w", "B", "o", "d", "y">>
K_LawTitle == <<"L", "a", "w", "T", "i", "t", "l", "e">>
K_LawNum == <<"L", "a", "w", "N", "u", "m">>
K_SupplProvisionLabel == <<"S", "u", "p", "p", "l", "P", "r", "o", "v", "i", "s", "i", "o", "n", "L", "a", "b", "e", "l">>
K_AtAmendLawNum == <<"@", "A", "m", "e", "n", "d", "L", "a", "w", "N", "u", "m">>
K_Article == <<"A", "r", "t", "i", "c", "l", "e">>
K_Law == <<"L", "a", "w">>
K_MainProvision == <<"M", "a", "i", "n", "P", "r", "o", "v", "i", "s", "i", "o", "n">>
K_SupplProvision == <<"S", "u", "p", "p", "l", "P", "r", "o", "v", "i", "s", "i", "o", "n">>
K_AtEra == <<"@", "E", "r", "a">>
K_AtYear == <<"@", "Y", "e", "a", "r">>

S_SupplementaryProvision == <<"S", "u", "p", "p", "l", "e", "m", "e", "n", "t", "a", "r", "y", " ", "P", "r", "o", "v", "i", "s", "i", "o", "n", " ">>
S_Article == <<"A", "r", "t", "i", "c", "l", "e">>
S_ArticleSp == <<"A", "r", "t", "i", "c", "l", "e", " ">>
S_Paragraph == <<" ", "-", " ", "P", "a", "r", "a", "g", "r", "a", "p", "h", " ">>
S_Dash == <<" ", "-", " ">>
S_Heading == <<"#", "#", " ">>
S_Bullet == <<"-", " ">>
S_Law == <<"L", "a", "w", ":", " ">>
S_Era == <<"\n", "E", "r", "a", ":", " ">>
S_Year == <<",", " ", "Y", "e", "a", "r", ":", " ">>
S_Number == <<",", " ", "N", "u", "m", "b", "e", "r", ":", " ">>
S_RowOpen == <<"|", " ">>
S_RowSep == <<" ", "|", " ">>
S_RowClose == <<" ", "|">>
S_Colon == <<":", " ">>
S_Open == <<" ", "(">>
S_Close == <<")">>
S_BlankLine == <<"\n", "\n">>
S_Newline == <<"\n">>
S_Space == <<" ">>

-----------------------------------------------------------------------------
(* helpers shared by the extraction functions *)

\* "if text: parts.append(text)": a part is kept when it is truthy; a raised
\* exception is kept too, it ends the evaluation at that point
Kept(x) == IF IsExc(x) \/ Truthy(x) THEN <<x>> ELSE <<>>

FirstExc(parts) == parts[CHOOSE i \in 1..Len(parts) :
                           IsExc(parts[i]) /\ \A j \in 1..(i - 1) : ~IsExc(parts[j])]

\* sep.join(parts) of the parts collected by a function: the first exception
\* raised while collecting them; TypeError when a part is not a str
JoinValues(sep, parts) ==
    IF \E i \in 1..Len(parts) : IsExc(parts[i]) THEN FirstExc(parts)
    ELSE IF \E i \in 1..Len(parts) : ~IsStr(parts[i]) THEN TypeError
    ELSE Str(Join(sep, [i \in 1..Len(parts) |-> parts[i].s]))

\* f"{prefix}{x}"
Prefixed(prefix, x) == IF IsExc(x) THEN x ELSE Str(prefix \o PyStr(x))

\* "x if isinstance(x, list) else [x]": a lone value counts as a list of one
AsList(x) == IF IsList(x) THEN x.v ELSE <<x>>

\* the items a for loop visits: the items of a list, the characters of a str
Iterable(x) == x.t \in {"list", "str", "dict"}
Items(x) ==
    CASE x.t = "list" -> x.v
      [] x.t = "str" -> [i \in 1..Len(x.s) |-> Str(<<x.s[i]>>)]
      [] x.t = "dict" -> [i \in 1..Len(x.k) |-> Str(x.k[i])]
      [] OTHER -> <<>>

-----------------------------------------------------------------------------
(* extract_all_text_fields: the list of the stripped non-blank "#text" strs *)

\* only the text of the object itself is collected
TextFieldOfTop(obj) ==
    IF IsDict(obj) /\ HasKey(obj, K_text) /\ IsStr(Item(obj, K_text))
       /\ Strip(Item(obj, K_text).s) # <<>>
    THEN <<Strip(Item(obj, K_text).s)>> ELSE <<>>

RECURSIVE extract_all_text_fields(_)
extract_all_text_fields(obj) ==
    LET RECURSIVE Walk(_)
        Walk(i) ==
            IF i > Len(obj.v) THEN <<>>
            ELSE (IF IsDict(obj) /\ obj.k[i] = K_text /\ IsStr(obj.v[i])
                     /\ Strip(obj.v[i].s) # <<>>
                  THEN <<Strip(obj.v[i].s)>>
                  ELSE extract_all_text_fields(obj.v[i])) \o Walk(i + 1)
    IN  IF IsDict(obj) \/ IsList(obj) THEN Walk(1) ELSE <<>>

-----------------------------------------------------------------------------
(* extract_text_from_sentence *)

RECURSIVE extract_text_from_sentence(_)

\* lines 43-47: the truthy texts of the items of a list
RECURSIVE SentenceTexts(_)
SentenceTexts(items) ==
    IF items = <<>> THEN <<>>
    ELSE Kept(extract_text_from_sentence(Head(items))) \o SentenceTexts(Tail(items))

\* lines 35-41: the first value that is a str, or the first truthy
\* resolution of a dict or a list
RECURSIVE FirstText(_)
RECURSIVE Resolved(_, _)
FirstText(values) ==
    IF values = <<>> THEN EmptyStr
    ELSE IF IsStr(Head(values)) THEN Head(values)
    ELSE IF IsDict(Head(values)) \/ IsList(Head(values))
    THEN Resolved(extract_text_from_sentence(Head(values)), Tail(values))
    ELSE FirstText(Tail(values))

\* the resolution of the first nested structure is returned, empty or not
ResolvedAlways(resolution, rest) == resolution

\* lines 39-41: "if result: return result"
Resolved(result, rest) ==
    IF IsExc(result) \/ Truthy(result) THEN result ELSE FirstText(rest)

extract_text_from_sentence(sentence_obj) ==
    CASE IsDict(sentence_obj) ->
           IF HasKey(sentence_obj, K_text)
           THEN (IF Truthy(Item(sentence_obj, K_text))
                 THEN Item(sentence_obj, K_text) ELSE EmptyStr)
           ELSE IF HasKey(sentence_obj, K_Sentence)
           THEN extract_text_from_sentence(Item(sentence_obj, K_Sentence))
           ELSE FirstText(sentence_obj.v)
      [] IsList(sentence_obj) -> JoinValues(S_Space, SentenceTexts(sentence_obj.v))
      [] IsStr(sentence_obj) -> sentence_obj
      [] OTHER -> EmptyStr

-----------------------------------------------------------------------------
(* extract_table_content *)

\* lines 90-99: the truthy texts of the columns of a row
ColumnTexts(columns) ==
    IF IsExc(columns) THEN <<columns>> ELSE SentenceTexts(AsList(columns))

\* line 102
FramedRow(joined) ==
    IF IsExc(joined) THEN <<joined>>
    ELSE <<Str(S_RowOpen \o joined.s \o S_RowClose)>>

\* every row gives a line, also a row without texts
RowOfAnyTexts(row_texts) == FramedRow(JoinValues(S_RowSep, row_texts))

\* lines 101-102: only a row that has texts gives a line
RowOfTexts(row_texts) ==
    IF row_texts = <<>> THEN <<>> ELSE FramedRow(JoinValues(S_RowSep, row_texts))

\* lines 85-102: the markdown line of one row, if it has one
RowLine(row) ==
    IF InRaises(Str(K_TableColumn), row) THEN <<TypeError>>
    ELSE IF ~In(Str(K_TableColumn), row) THEN <<>>
    ELSE RowOfTexts(ColumnTexts(Subscript(row, K_TableColumn)))

RECURSIVE RowLines(_)
RowLines(rows) ==
    IF rows = <<>> THEN <<>> ELSE RowLine(Head(rows)) \o RowLines(Tail(rows))

\* lines 71-72: a "Table" wrapper is opened
ActualTable(table_entry) ==
    IF IsDict(table_entry) /\ HasKey(table_entry, K_Table)
    THEN Item(table_entry, K_Table) ELSE table_entry

\* lines 75-77: rows = actual_table["TableRow"], or actual_table itself when
\* it has no "TableRow", as a list
TableRows(actual_table) ==
    IF InRaises(Str(K_TableRow), actual_table) THEN TypeError
    ELSE IF In(Str(K_TableRow), actual_table) THEN Subscript(actual_table, K_TableRow)
    ELSE IF IsList(actual_table) THEN actual_table
    ELSE List(<<actual_table>>)

\* lines 79-102: a lone row counts as a list of one; the lines of the rows
LinesOfRows(rows) ==
    IF IsExc(rows) THEN <<rows>>
    ELSE IF IsDict(rows) THEN RowLines(<<rows>>)
    ELSE IF ~Iterable(rows) THEN <<TypeError>>
    ELSE RowLines(Items(rows))

\* lines 69-102: the markdown lines of one entry of tables
TableLines(table_entry) == LinesOfRows(TableRows(ActualTable(table_entry)))

RECURSIVE LinesOfTables(_)
LinesOfTables(tables) ==
    IF tables = <<>> THEN <<>>
    ELSE TableLines(Head(tables)) \o LinesOfTables(Tail(tables))

extract_table_content(table_obj) ==
    IF ~Truthy(table_obj) THEN EmptyStr
    ELSE JoinValues(S_Newline, LinesOfTables(AsList(table_obj)))

-----------------------------------------------------------------------------
(* process_paragraph_content *)

ParagraphSkipped ==
    {K_ParagraphSentence, K_List, K_TableStruct, K_ParagraphNum,
     K_AtHide, K_AtNum, K_AtOldStyle, K_AtOldNum}

\* lines 126-127, 135-136, 140-141: the "- " part of a list text
BulletOf(list_text) ==
    IF IsExc(list_text) THEN <<list_text>>
    ELSE IF Truthy(list_text) THEN <<Prefixed(S_Bullet, list_text)>>
    ELSE <<>>

RECURSIVE Bullets(_)
Bullets(sentences) ==
    IF sentences = <<>> THEN <<>>
    ELSE BulletOf(extract_text_from_sentence(Head(sentences)))
         \o Bullets(Tail(sentences))

\* lines 122-123, 131-132: the ListSentence of each item that is a dict and
\* has one
RECURSIVE ItemSentences(_)
ItemSentences(items) ==
    IF items = <<>> THEN <<>>
    ELSE (IF IsDict(Head(items)) /\ HasKey(Head(items), K_ListSentence)
          THEN <<Item(Head(items), K_ListSentence)>>
          ELSE <<>>) \o ItemSentences(Tail(items))

\* lines 119-141: the sentences of the list items: those of the items of a
\* list or of a lone item, or the list object itself when it is neither a
\* dict nor a list
ListSentences(list_obj) ==
    CASE IsDict(list_obj) -> ItemSentences(<<list_obj>>)
      [] IsList(list_obj) -> ItemSentences(list_obj.v)
      [] OTHER -> <<list_obj>>

\* lines 119-141: one "- " part per list item that has text
ListParts(list_obj) == Bullets(ListSentences(list_obj))

RECURSIVE TableTexts(_)
TableTexts(structs) ==
    IF structs = <<>> THEN <<>>
    ELSE Kept(extract_table_content(Head(structs))) \o TableTexts(Tail(structs))

\* lines 144-156
TableParts(table_struct) == TableTexts(AsList(table_struct))

\* lines 159-173 (and 202-210): the dicts and lists under the fields that
\* are not skipped, in the order of the fields
RECURSIVE NestedFields(_, _, _)
NestedFields(keys, values, skipped) ==
    IF keys = <<>> THEN <<>>
    ELSE (IF Head(keys) \notin skipped
             /\ (IsDict(Head(values)) \/ IsList(Head(values)))
          THEN <<Head(values)>>
          ELSE <<>>) \o NestedFields(Tail(keys), Tail(values), skipped)

RECURSIVE process_paragraph_content(_)

\* lines 164-173, 176-179 (and 194-200, 205-210): the truthy contents of
\* each of a sequence of paragraphs
RECURSIVE ParagraphTexts(_)
ParagraphTexts(paragraphs) ==
    IF paragraphs = <<>> THEN <<>>
    ELSE Kept(process_paragraph_content(Head(paragraphs)))
         \o ParagraphTexts(Tail(paragraphs))

\* the list parts come before the text of the direct sentence
ListPartsFirst(sentence_parts, list_parts, table_parts, other_parts) ==
    list_parts \o sentence_parts \o table_parts \o other_parts

\* lines 113-173: content_parts takes the text of the ParagraphSentence, then
\* the parts of the List, then those of the TableStruct, then those of the
\* other fields
ParagraphParts(sentence_parts, list_parts, table_parts, other_parts) ==
    sentence_parts \o list_parts \o table_parts \o other_parts

process_paragraph_content(paragraph_obj) ==
    CASE IsDict(paragraph_obj) ->
           JoinValues(S_Space,
               ParagraphParts(
                   IF HasKey(paragraph_obj, K_ParagraphSentence)
                   THEN Kept(extract_text_from_sentence(
                                 Item(paragraph_obj, K_ParagraphSentence)))
                   ELSE <<>>,
                   IF HasKey(paragraph_obj, K_List)
                   THEN ListParts(Item(paragraph_obj, K_List)) ELSE <<>>,
                   IF HasKey(paragraph_obj, K_TableStruct)
                   THEN TableParts(Item(paragraph_obj, K_TableStruct)) ELSE <<>>,
                   ParagraphTexts(NestedFields(paragraph_obj.k, paragraph_obj.v,
                                               ParagraphSkipped))))
      [] IsList(paragraph_obj) -> JoinValues(S_Space, ParagraphTexts(paragraph_obj.v))
      [] OTHER -> EmptyStr

-----------------------------------------------------------------------------
(* process_article *)

ArticleSkipped == {K_ArticleTitle, K_Paragraph, K_AtDelete, K_AtHide, K_AtNum}

\* what process_article raises for an article that is not a dict: "in"
\* raises for a number or null (line 189); a str or a list that holds
\* "ArticleTitle" or "Paragraph" cannot be indexed by it (lines 190, 193);
\* otherwise it has no items() (line 205)
ArticleError(article_obj) ==
    IF InRaises(Str(K_ArticleTitle), article_obj) THEN TypeError
    ELSE IF In(Str(K_ArticleTitle), article_obj) \/ In(Str(K_Paragraph), article_obj)
    THEN TypeError
    ELSE AttributeError

\* the other fields are rendered before the paragraphs
OtherFieldsFirst(article_obj) ==
    NestedFields(article_obj.k, article_obj.v, ArticleSkipped)
    \o (IF HasKey(article_obj, K_Paragraph)
        THEN AsList(Item(article_obj, K_Paragraph)) ELSE <<>>)

\* lines 192-210: what process_paragraph_content is applied to, in order:
\* the paragraphs, then the dicts and lists under the other fields
ArticleContents(article_obj) ==
    (IF HasKey(article_obj, K_Paragraph)
     THEN AsList(Item(article_obj, K_Paragraph)) ELSE <<>>)
    \o NestedFields(article_obj.k, article_obj.v, ArticleSkipped)

process_article(article_obj) ==
    IF ~IsDict(article_obj) THEN ArticleError(article_obj)
    ELSE JoinValues(S_BlankLine,
             (IF HasKey(article_obj, K_ArticleTitle)
              THEN <<Prefixed(S_Heading, Item(article_obj, K_ArticleTitle))>>
              ELSE <<>>)
             \o ParagraphTexts(ArticleContents(article_obj)))

-----------------------------------------------------------------------------
(* extract_title *)

\* lines 227-230
TitleWithAbbrev(main_title, abbrev) ==
    IF Truthy(abbrev) /\ abbrev # main_title
    THEN Str(PyStr(main_title) \o S_Open \o PyStr(abbrev) \o S_Close)
    ELSE main_title

\* the law number is put in front of every title
TitleWithLawNumAlways(law_num, full_title) ==
    IF ~Truthy(law_num) THEN full_title
    ELSE Str(PyStr(law_num) \o S_Colon \o PyStr(full_title))

\* lines 233-235
TitleWithLawNum(law_num, full_title) ==
    IF ~Truthy(law_num) THEN full_title
    ELSE IF InRaises(law_num, full_title) THEN TypeError
    ELSE IF ~In(law_num, full_title)
    THEN Str(PyStr(law_num) \o S_Colon \o PyStr(full_title))
    ELSE full_title

\* line 237: only a str has strip()
Stripped(full_title) ==
    IF IsExc(full_title) THEN full_title
    ELSE IF ~IsStr(full_title) THEN AttributeError
    ELSE Str(Strip(full_title.s))

\* lines 227-237
FullTitle(main_title, abbrev, law_num) ==
    IF IsExc(main_title) THEN main_title
    ELSE Stripped(TitleWithLawNum(law_num, TitleWithAbbrev(main_title, abbrev)))

extract_title(law_data) ==
    FullTitle(DictGet(DictGet(DictGet(law_data, K_LawBody, EmptyDict),
                              K_LawTitle, EmptyDict),
                      K_text, EmptyStr),
              DictGet(DictGet(DictGet(law_data, K_LawBody, EmptyDict),
                              K_LawTitle, EmptyDict),
                      K_AtAbbrev, EmptyStr),
              DictGet(law_data, K_LawNum, EmptyStr))

-----------------------------------------------------------------------------
(* corpus entries and the results of the functions that return them *)

Entry(title, text, idx) == [title |-> title, text |-> text, idx |-> idx]

\* a function returned the list of entries
Ok(entries) == [raised |-> FALSE, exc |-> Null, entries |-> entries]
\* a function raised
Raised(e) == [raised |-> TRUE, exc |-> e, entries |-> <<>>]

\* the entries of r1 followed by those of r2, computed after r1
Then(r1, r2) ==
    IF r1.raised THEN r1
    ELSE IF r2.raised THEN r2
    ELSE Ok(r1.entries \o r2.entries)

\* lines 355, 366, 378: entry["idx"] = len(corpus_entries), for entries
\* appended in order
Renumber(entries, start) ==
    [i \in 1..Len(entries) |-> [entries[i] EXCEPT !.idx = start + i - 1]]

\* the entry of a content is emitted when the content is not empty
EntryOfAnyText(content, label, prefix) ==
    IF IsExc(content) THEN Raised(content)
    ELSE IF content.s = <<>> THEN Ok(<<>>)
    ELSE IF IsExc(label) THEN Raised(label)
    ELSE Ok(<<Entry(prefix \o PyStr(label), content.s, 0)>>)

\* lines 350-357 (and 265-272, 276-283, 292-301, 304-311, 361-368): the
\* entry of a rendered content, if the content is not blank; label is what
\* follows the prefix in its title and is looked up only then
EntryOf(content, label, prefix) ==
    IF IsExc(content) THEN Raised(content)
    ELSE IF Strip(content.s) = <<>> THEN Ok(<<>>)
    ELSE IF IsExc(label) THEN Raised(label)
    ELSE Ok(<<Entry(prefix \o PyStr(label), content.s, 0)>>)

\* lines 349-351 (and 264-266, 275-277, 360-362)
ArticleEntry(article, prefix, default_title) ==
    EntryOf(process_article(article),
            DictGet(article, K_ArticleTitle, Str(default_title)),
            prefix \o S_Dash)

\* lines 348-357 (and 263-272): the entries of the articles from position i
\* on; the i-th of a list has the default title "Article i", a lone one
\* "Article"
RECURSIVE ArticleEntriesFrom(_, _, _, _)
ArticleEntriesFrom(articles, i, listed, prefix) ==
    IF i > Len(articles) THEN Ok(<<>>)
    ELSE Then(ArticleEntry(articles[i], prefix,
                           IF listed THEN S_ArticleSp \o IntToStr(i) ELSE S_Article),
              ArticleEntriesFrom(articles, i + 1, listed, prefix))

\* lines 347-368 (and 262-283): the entries of the "Article" field of a
\* main or supplementary provision
ArticleEntries(articles, prefix) ==
    IF IsExc(articles) THEN Raised(articles)
    ELSE ArticleEntriesFrom(AsList(articles), 1, IsList(articles), prefix)

-----------------------------------------------------------------------------
(* process_supplementary_provision *)

\* lines 249-254
LabelledTitle(main_title, prov_label, amend_law_num) ==
    IF Truthy(amend_law_num)
    THEN main_title \o S_Dash \o PyStr(prov_label)
             \o S_Open \o PyStr(amend_law_num) \o S_Close
    ELSE main_title \o S_Dash \o PyStr(prov_label)

\* the default label counts the provisions from 0
ProvisionTitleFromZero(prov, prov_idx, main_title) ==
    LabelledTitle(main_title,
                  DictGet(prov, K_SupplProvisionLabel,
                          Str(S_SupplementaryProvision \o IntToStr(prov_idx))),
                  DictGet(prov, K_AtAmendLawNum, EmptyStr))

\* lines 245-254
ProvisionTitle(prov, prov_idx, main_title) ==
    LabelledTitle(main_title,
                  DictGet(prov, K_SupplProvisionLabel,
                          Str(S_SupplementaryProvision \o IntToStr(prov_idx + 1))),
                  DictGet(prov, K_AtAmendLawNum, EmptyStr))

\* lines 290-311: the entries of the paragraphs from position i on; a
\* paragraph of a list is numbered by its ParagraphNum or its position, a
\* lone paragraph is "Paragraph 1"
RECURSIVE ParagraphEntriesFrom(_, _, _, _)
ParagraphEntriesFrom(paragraphs, i, listed, prov_title) ==
    IF i > Len(paragraphs) THEN Ok(<<>>)
    ELSE Then(EntryOf(process_paragraph_content(paragraphs[i]),
                      IF listed THEN DictGet(paragraphs[i], K_ParagraphNum, Num(i))
                      ELSE Num(1),
                      prov_title \o S_Paragraph),
              ParagraphEntriesFrom(paragraphs, i + 1, listed, prov_title))

\* lines 287-311
ParagraphEntries(paragraphs, prov_title) ==
    ParagraphEntriesFrom(AsList(paragraphs), 1, IsList(paragraphs), prov_title)

\* the provision gives a general entry whatever its collected text
FallbackOfAnyText(prov_content, prov_title) ==
    Ok(<<Entry(prov_title, prov_content, 0)>>)

\* lines 317-324
FallbackOf(prov_content, prov_title) ==
    IF Strip(prov_content) # <<>>
    THEN Ok(<<Entry(prov_title, prov_content, 0)>>) ELSE Ok(<<>>)

\* lines 314-324
ProvisionFallback(prov, prov_title) ==
    FallbackOf(Join(S_Newline, extract_all_text_fields(prov)), prov_title)

\* every tier adds its entries
PreferAll(entries, otherwise) == Then(entries, otherwise)

\* lines 286, 314: "if not entries", the next tier is tried only when the
\* tiers before it gave no entry
Prefer(entries, otherwise) ==
    IF entries.raised \/ entries.entries # <<>> THEN entries ELSE otherwise

\* lines 260-324: the three tiers, under the title of the provision
ProvisionEntries(prov, prov_title) ==
    Prefer(IF HasKey(prov, K_Article)
           THEN ArticleEntries(Item(prov, K_Article), prov_title) ELSE Ok(<<>>),
           Prefer(IF HasKey(prov, K_Paragraph)
                  THEN ParagraphEntries(Item(prov, K_Paragraph), prov_title)
                  ELSE Ok(<<>>),
                  ProvisionFallback(prov, prov_title)))

process_supplementary_provision(prov, prov_idx, main_title) ==
    IF ~IsDict(prov) THEN Raised(AttributeError)
    ELSE ProvisionEntries(prov, ProvisionTitle(prov, prov_idx, main_title))

-----------------------------------------------------------------------------
(* transform_law_json_to_articles *)

\* the content of a file that json.load cannot read
BadFile == Exc("BadFile")

\* lines 331-334
LawOf(law_data) == DictGet(law_data, K_Law, EmptyDict)

\* every entry of the main provision keeps the idx 0
Unnumbered(found) == found

\* lines 355, 366: the entries of the main provision are the first of
\* corpus_entries
NumberedFromZero(found) ==
    IF found.raised THEN found ELSE Ok(Renumber(found.entries, 0))

\* lines 345-368
ArticlesOfMain(main_prov, main_title) ==
    IF InRaises(Str(K_Article), main_prov) THEN Raised(TypeError)
    ELSE IF ~In(Str(K_Article), main_prov) THEN Ok(<<>>)
    ELSE NumberedFromZero(ArticleEntries(Subscript(main_prov, K_Article),
                                         main_title))

\* lines 342-345
MainOfBody(law_body, main_title) ==
    IF ~HasKey(law_body, K_MainProvision) THEN Ok(<<>>)
    ELSE ArticlesOfMain(Item(law_body, K_MainProvision), main_title)

\* lines 342-368: main_title is the str extract_title returned, so that law
\* and its LawBody are dicts
MainProvisionEntries(law, main_title) ==
    MainOfBody(DictGet(law, K_LawBody, EmptyDict), main_title)

\* lines 371-373
ProvisionsOfBody(law_body) ==
    IF ~HasKey(law_body, K_SupplProvision) THEN <<>>
    ELSE AsList(Item(law_body, K_SupplProvision))

Provisions(law) == ProvisionsOfBody(DictGet(law, K_LawBody, EmptyDict))

\* the entries of a provision are appended with the idx the provision gave
AppendedUnnumbered(corpus_entries, prov_entries) ==
    IF prov_entries.raised THEN prov_entries
    ELSE Ok(corpus_entries \o prov_entries.entries)

\* lines 377-379
Appended(corpus_entries, prov_entries) ==
    IF prov_entries.raised THEN prov_entries
    ELSE Ok(corpus_entries \o Renumber(prov_entries.entries, Len(corpus_entries)))

\* lines 376-379: the entries of provision prov_idx + 1, appended to
\* corpus_entries
AppendProvision(corpus_entries, law, prov_idx, main_title) ==
    Appended(corpus_entries,
             process_supplementary_provision(Provisions(law)[prov_idx + 1],
                                             prov_idx, main_title))

\* lines 387-395
FallbackText(collected, law) ==
    IF collected # <<>> THEN collected
    ELSE S_Law \o PyStr(DictGet(law, K_LawNum, EmptyStr))
         \o S_Era \o PyStr(DictGet(law, K_AtEra, EmptyStr))
         \o S_Year \o PyStr(DictGet(law, K_AtYear, EmptyStr))
         \o S_Number \o PyStr(DictGet(law, K_AtNum, EmptyStr))

\* the fallback text is collected from the law only
FallbackEntryOfLaw(law_data, law, main_title) ==
    Entry(main_title,
          FallbackText(Join(S_Newline, extract_all_text_fields(law)), law), 0)

\* lines 384-400
FallbackEntry(law_data, law, main_title) ==
    Entry(main_title,
          FallbackText(Join(S_Newline, extract_all_text_fields(law_data)), law), 0)

\* lines 375-379: the loop over the provisions from prov_idx on
RECURSIVE SupplProvisionEntries(_, _, _, _)
SupplProvisionEntries(corpus, law, prov_idx, main_title) ==
    IF corpus.raised \/ prov_idx >= Len(Provisions(law)) THEN corpus
    ELSE SupplProvisionEntries(
             AppendProvision(corpus.entries, law, prov_idx, main_title),
             law, prov_idx + 1, main_title)

\* lines 382-402
Returned(corpus, law_data, law, main_title) ==
    IF corpus.raised THEN corpus
    ELSE IF corpus.entries = <<>>
    THEN Ok(<<FallbackEntry(law_data, law, main_title)>>)
    ELSE corpus

\* lines 339-402, once the title is composed
EntriesUnder(title, law_data, law) ==
    IF IsExc(title) THEN Raised(title)
    ELSE Returned(SupplProvisionEntries(MainProvisionEntries(law, title.s),
                                        law, 0, title.s),
                  law_data, law, title.s)

\* lines 334-402, once the file is read
EntriesOfLaw(law_data, law) ==
    IF IsExc(law) THEN Raised(law)
    ELSE EntriesUnder(extract_title(law), law_data, law)

transform_law_json_to_articles(file) ==
    IF file = BadFile THEN Raised(JSONDecodeError)
    ELSE EntriesOfLaw(file, LawOf(file))

-----------------------------------------------------------------------------
(* the documents the functions are applied to *)

\* the longest list of articles in an "Article" field
MaxArticles == 2
\* the longest list of provisions in a "SupplProvision" field
MaxProvisions == 2

\* a field a document does not have
Absent == [t |-> "absent", s |-> <<>>, n |-> 0, k |-> <<>>, v |-> <<>>]

\* the dict of the pairs <<key, value>> whose value is not Absent
Obj(pairs) ==
    LET present == SelectSeq(pairs, LAMBDA p : p[2] # Absent)
    IN  Dict([i \in 1..Len(present) |-> present[i][1]],
             [i \in 1..Len(present) |-> present[i][2]])

\* the lists of 1..max items drawn from pool
ListsOf(pool, max) ==
    UNION {{List(items) : items \in [1..len -> pool]} : len \in 1..max}

K_Item == <<"I", "t", "e", "m">>
K_Other == <<"O", "t", "h", "e", "r">>

Para_a ==
    Obj(<< <<K_ParagraphNum, Str(<<"1">>)>>,
           <<K_ParagraphSentence,
             Obj(<< <<K_Sentence, Obj(<< <<K_text, Str(<<"a">>)>> >>)>> >>)>> >>)
Para_b ==
    Obj(<< <<K_ParagraphSentence, Obj(<< <<K_Sentence, Str(<<"b">>)>> >>)>>,
           <<K_List,
             List(<<Obj(<< <<K_ListSentence,
                             Obj(<< <<K_Sentence, Str(<<"c">>)>> >>)>> >>)>>)>> >>)
Para_table ==
    Obj(<< <<K_TableStruct,
             Obj(<< <<K_Table,
                      Obj(<< <<K_TableRow,
                               List(<<Obj(<< <<K_TableColumn,
                                               List(<<Obj(<< <<K_Sentence, Str(<<"a">>)>> >>),
                                                      Obj(<< <<K_Sentence, EmptyStr>> >>),
                                                      Obj(<< <<K_Sentence, Str(<<"b">>)>> >>)>>)>> >>),
                                      Obj(<< <<K_TableColumn,
                                               Obj(<< <<K_Sentence, EmptyStr>> >>)>> >>)>>)>> >>)>> >>)>> >>)
Para_empty == Obj(<< <<K_ParagraphSentence, Obj(<< <<K_text, EmptyStr>> >>)>> >>)
Para_blank == Obj(<< <<K_ParagraphSentence, Obj(<< <<K_text, Str(<<" ">>)>> >>)>> >>)
Para_number == Obj(<< <<K_ParagraphSentence, Obj(<< <<K_text, Num(7)>> >>)>> >>)
Para_nested == Obj(<< <<K_Item, Obj(<< <<K_ParagraphSentence, Str(<<"d">>)>> >>)>> >>)

Art_titled ==
    Obj(<< <<K_AtNum, Str(<<"1">>)>>, <<K_ArticleTitle, Str(<<"t">>)>>,
           <<K_Paragraph, Para_a>> >>)
Art_untitled == Obj(<< <<K_Paragraph, List(<<Para_a, Para_b>>)>> >>)
Art_empty == Obj(<< <<K_Paragraph, Para_empty>> >>)
Art_blank == Obj(<< <<K_Paragraph, Para_blank>> >>)
Art_heading == Obj(<< <<K_ArticleTitle, EmptyStr>> >>)
Art_number == Obj(<< <<K_ArticleTitle, Str(<<"t">>)>>, <<K_Paragraph, Para_number>> >>)
Art_table ==
    Obj(<< <<K_ArticleTitle, Obj(<< <<K_text, Str(<<"t">>)>> >>)>>,
           <<K_Paragraph, Para_table>> >>)
Art_nested == Obj(<< <<K_Other, List(<<Para_nested>>)>> >>)

\* the articles met alone in an "Article" field
Articles ==
    {Art_titled, Art_untitled, Art_empty, Art_blank, Art_heading, Art_number,
     Art_table, Art_nested, Null, Str(<<"x">>)}
\* the articles met in a list
ListedArticles == {Art_titled, Art_untitled, Art_empty, Art_blank}

Prov_articles ==
    Obj(<< <<K_SupplProvisionLabel, Str(<<"L">>)>>, <<K_AtAmendLawNum, Str(<<"m">>)>>,
           <<K_Article, List(<<Art_titled, Art_untitled>>)>> >>)
Prov_paragraphs == Obj(<< <<K_Paragraph, List(<<Para_empty, Para_b, Para_a>>)>> >>)
Prov_text ==
    Obj(<< <<K_SupplProvisionLabel, Obj(<< <<K_text, Str(<<"x">>)>> >>)>>,
           <<K_Other, List(<<Obj(<< <<K_text, Str(<<" ", "y", " ">>)>> >>)>>)>> >>)
Prov_second ==
    Obj(<< <<K_AtAmendLawNum, Str(<<"m">>)>>, <<K_Article, Art_empty>>,
           <<K_Paragraph, Para_b>> >>)
Prov_single == Obj(<< <<K_Article, Art_untitled>> >>)
Prov_listed == Obj(<< <<K_Paragraph, List(<<List(<<Para_a>>)>>)>> >>)
Prov_blank == Obj(<< <<K_SupplProvisionLabel, Str(<<"L">>)>> >>)

\* the provisions met alone in a "SupplProvision" field
SupplProvisions ==
    {Prov_articles, Prov_paragraphs, Prov_text, Prov_second, Prov_single,
     Prov_listed, Prov_blank, EmptyDict, Null, Str(<<"x">>)}
\* the provisions met in a list
ListedProvisions == {Prov_articles, Prov_paragraphs, Prov_blank, Null}

\* the values of "LawTitle"
LawTitles ==
    {Absent, EmptyDict, Null, Str(<<"a", "b">>),
     Obj(<< <<K_text, Str(<<"a", "b">>)>> >>),
     Obj(<< <<K_text, Str(<<" ", "a", "b", " ">>)>> >>),
     Obj(<< <<K_text, Null>> >>),
     Obj(<< <<K_text, Num(7)>> >>),
     Obj(<< <<K_AtAbbrev, Str(<<"a">>)>> >>),
     Obj(<< <<K_text, Str(<<"a", "b">>)>>, <<K_AtAbbrev, Str(<<"a">>)>> >>),
     Obj(<< <<K_text, Str(<<"a", "b">>)>>, <<K_AtAbbrev, Str(<<"a", "b">>)>> >>),
     Obj(<< <<K_text, Str(<<"a", "b">>)>>, <<K_AtAbbrev, EmptyStr>> >>)}

\* the values of "LawNum"
LawNums == {Absent, EmptyStr, Null, Num(5), Str(<<"n">>), Str(<<"a">>), Str(<<"n", " ">>)}

\* the values of "MainProvision"
MainProvisions ==
    {Absent, Null, Str(<<"x">>), EmptyDict}
        \cup {Obj(<< <<K_Article, a>> >>) :
                a \in Articles \cup ListsOf(ListedArticles, MaxArticles)}

\* the values of "SupplProvision"
SupplFields == {Absent} \cup SupplProvisions \cup ListsOf(ListedProvisions, MaxProvisions)

Law(title, law_num, main, suppl) ==
    Obj(<< <<K_Law,
             Obj(<< <<K_AtEra, Str(<<"E">>)>>, <<K_AtYear, Str(<<"4">>)>>,
                    <<K_LawNum, law_num>>,
                    <<K_LawBody, Obj(<< <<K_LawTitle, title>>,
                                        <<K_MainProvision, main>>,
                                        <<K_SupplProvision, suppl>> >>)>> >>)>> >>)

NamedTitle == Obj(<< <<K_text, Str(<<"a", "b">>)>>, <<K_AtAbbrev, Str(<<"a">>)>> >>)

\* every title with a few bodies
TitleDocuments ==
    {Law(title, law_num, main, Absent) :
        title \in LawTitles, law_num \in LawNums,
        main \in {Absent, Obj(<< <<K_Article, Art_titled>> >>)}}

\* every body with a few titles
BodyDocuments ==
    {Law(NamedTitle, Str(<<"n">>), main, suppl) :
        main \in MainProvisions, suppl \in SupplFields}
        \cup {Law(Absent, Absent, main, suppl) :
                main \in MainProvisions, suppl \in {Absent, Prov_articles}}
        \cup {Law(Absent, Absent, Absent, suppl) : suppl \in SupplFields}

\* documents that are not a Law with a body
OddDocuments ==
    {List(<<>>), Null, EmptyDict,
     Obj(<< <<K_Law, Null>> >>),
     Obj(<< <<K_Law, EmptyDict>> >>),
     Obj(<< <<K_Law, Obj(<< <<K_LawBody, Null>> >>)>> >>),
     Obj(<< <<K_Law, Obj(<< <<K_LawBody, Str(<<"x">>)>> >>)>> >>),
     Obj(<< <<K_Law, EmptyDict>>, <<K_Other, Obj(<< <<K_text, Str(<<"z">>)>> >>)>> >>),
     Obj(<< <<K_Law, Obj(<< <<K_AtNum, Str(<<"8">>)>>,
                            <<K_LawNum, Str(<<"n">>)>> >>)>> >>)}

\* the contents of a file: a document, or bytes json.load cannot read
Files == {BadFile} \cup OddDocuments \cup TitleDocuments \cup BodyDocuments

-----------------------------------------------------------------------------
(* the state *)

VARIABLES
    \* process_directory
    listing,        \* what os.listdir returns, in the order it returns it
    fs,             \* the content of each file of the directory
    json_files,     \* the names process_directory keeps
    pos,            \* the position of the loop in json_files
    corpus_list,
    idx_counter,
    output,         \* the entries written to output_file, <<>> before
    writes,         \* how many times output_file was opened for writing
    pc,             \* "start", "loop", "done", "raised"
    error,          \* the exception process_directory raised
    \* one call of transform_law_json_to_articles
    file,           \* the content of the file at file_path
    tpc,            \* "idle", "load", "main", "suppl", "done", "raised"
    law,
    main_title,
    corpus_entries,
    origin,         \* for each entry of corpus_entries, what emitted it: 0 the
                    \* main provision, p the p-th supplementary provision,
                    \* -1 the document-level fallback
    prov_idx,
    ret,            \* what the call returned or raised
    \* one call of an extraction function
    node,           \* the node the function is called with
    result,         \* what the call returned or raised
    fpc,            \* "idle", "call", "returned", "raised"
    \* one call of continuous_download (src/spider/spider.py)
    retry,
    total_size,
    tmp_path,       \* the file at tmp_path: whether it is a file, and its size
    file_path,      \* the file at file_path
    downloaded_size,
    attempts,       \* how many times the loop body was entered
    given_retry,    \* the retry argument of the call
    outcome,        \* "file_path", "None", "raised"; "running" before
    dpc,            \* "idle", "head", "loop", "download", "check", "done"
    \* one call of process_chat_request (src/app/services/chat_service.py)
    chat_request,
    db,             \* the committed conversations and messages
    conversation,   \* the local variable, bound or not
    agent_response,
    chat_response,  \* what the call returned
    failure,        \* the message of the last exception raised in the call
    steps,          \* the steps of the call so far, in order
    cpc             \* "idle", "start", "user", "agent", "assistant", "done"

dirvars == <<listing, fs, json_files, pos, corpus_list, idx_counter, output,
             writes, pc, error>>
docvars == <<file, tpc, law, main_title, corpus_entries, origin, prov_idx, ret>>
fnvars == <<node, result, fpc>>
dlvars == <<retry, total_size, tmp_path, file_path, downloaded_size, attempts,
            given_retry, outcome, dpc>>
chatvars == <<chat_request, db, conversation, agent_response, chat_response,
              failure, steps, cpc>>
appvars == <<dlvars, chatvars>>
vars == <<dirvars, docvars, fnvars, appvars>>

-----------------------------------------------------------------------------
(* transform_law_json_to_articles, step by step *)

DocIdle ==
    /\ file = Null /\ tpc = "idle" /\ law = Null /\ main_title = <<>>
    /\ corpus_entries = <<>> /\ origin = <<>> /\ prov_idx = 0 /\ ret = Ok(<<>>)

DirIdle ==
    /\ listing = <<>> /\ fs = <<>> /\ json_files = <<>> /\ pos = 0
    /\ corpus_list = <<>> /\ idx_counter = 0 /\ output = <<>> /\ writes = 0
    /\ pc = "idle" /\ error = Null

FnIdle == node = Null /\ result = Null /\ fpc = "idle"

\* no file
NoFile == [is_file |-> FALSE, st_size |-> 0]
\* a file of a size
FileOf(size) == [is_file |-> TRUE, st_size |-> size]

DlIdle ==
    /\ retry = 0 /\ total_size = 0 /\ tmp_path = NoFile /\ file_path = NoFile
    /\ downloaded_size = 0 /\ attempts = 0 /\ given_retry = 0
    /\ outcome = "running" /\ dpc = "idle"

\* the local variable conversation before it is assigned
Unbound == [bound |-> FALSE, id |-> 0]

ChatIdle ==
    /\ chat_request = Null /\ db = Null /\ conversation = Unbound
    /\ agent_response = Null /\ chat_response = Null /\ failure = Null
    /\ steps = <<>> /\ cpc = "idle"

AppIdle == DlIdle /\ ChatIdle

InitTransform ==
    /\ AppIdle
    /\ DirIdle
    /\ FnIdle
    /\ file \in Files
    /\ tpc = "load" /\ law = Null /\ main_title = <<>>
    /\ corpus_entries = <<>> /\ origin = <<>> /\ prov_idx = 0 /\ ret = Ok(<<>>)

Raise(e) ==
    /\ tpc' = "raised"
    /\ ret' = Raised(e)
    /\ UNCHANGED <<corpus_entries, origin, prov_idx>>

\* lines 336-337: the title is composed, or composing it raises
Titled(title) ==
    IF IsExc(title) THEN Raise(title) /\ UNCHANGED main_title
    ELSE /\ main_title' = title.s
         /\ tpc' = "main"
         /\ UNCHANGED <<corpus_entries, origin, prov_idx, ret>>

\* lines 334-337: the law is found, or looking for it raises
Found(found_law) ==
    IF IsExc(found_law) THEN Raise(found_law) /\ UNCHANGED <<law, main_title>>
    ELSE law' = found_law /\ Titled(extract_title(found_law))

\* lines 331-337: read the file, find the law, compose the title
Load ==
    /\ tpc = "load"
    /\ IF file = BadFile
       THEN Raise(JSONDecodeError) /\ UNCHANGED <<law, main_title>>
       ELSE Found(LawOf(file))
    /\ UNCHANGED <<file, dirvars, fnvars, appvars>>

\* corpus_entries becomes what a provision left of it, the new entries
\* being those of emitter, or the call ends with what the provision raised
Collect(collected, emitter, next_idx) ==
    IF collected.raised THEN Raise(collected.exc)
    ELSE /\ corpus_entries' = collected.entries
         /\ origin' = origin \o [i \in 1..(Len(collected.entries) - Len(corpus_entries))
                                   |-> emitter]
         /\ prov_idx' = next_idx
         /\ tpc' = "suppl"
         /\ UNCHANGED ret

\* lines 339-368
MainProvision ==
    /\ tpc = "main"
    /\ Collect(MainProvisionEntries(law, main_title), 0, 0)
    /\ UNCHANGED <<file, law, main_title, dirvars, fnvars, appvars>>

\* lines 375-379, one turn of the loop
SupplProvision ==
    /\ tpc = "suppl"
    /\ prov_idx < Len(Provisions(law))
    /\ Collect(AppendProvision(corpus_entries, law, prov_idx, main_title),
               prov_idx + 1, prov_idx + 1)
    /\ UNCHANGED <<file, law, main_title, dirvars, fnvars, appvars>>

\* lines 382-402
Return ==
    /\ tpc = "suppl"
    /\ prov_idx >= Len(Provisions(law))
    /\ IF corpus_entries = <<>>
       THEN /\ corpus_entries' = <<FallbackEntry(file, law, main_title)>>
            /\ origin' = <<-1>>
       ELSE UNCHANGED <<corpus_entries, origin>>
    /\ ret' = Ok(corpus_entries')
    /\ tpc' = "done"
    /\ UNCHANGED <<file, law, main_title, prov_idx, dirvars, fnvars, appvars>>

NextTransform == Load \/ MainProvision \/ SupplProvision \/ Return

SpecTransform == InitTransform /\ [][NextTransform]_vars

-----------------------------------------------------------------------------
(* process_directory *)

\* the most files of a directory
MaxFiles == 3

S_json == <<".", "j", "s", "o", "n">>
OtherName == <<"0", ".", "t", "x", "t">>
FileName(i) == IntToStr(i) \o S_json

\* f.endswith(suffix)
EndsWith(name, suffix) ==
    /\ Len(name) >= Len(suffix)
    /\ SubSeq(name, Len(name) - Len(suffix) + 1, Len(name)) = suffix

\* the orders in which a set of names can be listed
Orders(names) ==
    {order \in [1..Cardinality(names) -> names] :
        \A i, j \in 1..Cardinality(names) : i # j => order[i] # order[j]}

Doc_articles ==
    Law(NamedTitle, Str(<<"n">>),
        Obj(<< <<K_Article, List(<<Art_titled, Art_untitled>>)>> >>), Absent)
Doc_provisions ==
    Law(Absent, Absent, Obj(<< <<K_Article, Art_titled>> >>), Prov_articles)
Doc_raising == Law(NamedTitle, Str(<<"n">>), Obj(<< <<K_Article, Null>> >>), Absent)

\* the contents of the files of a directory
DirectoryFiles == {BadFile, Doc_articles, Doc_provisions, Doc_raising}

Init ==
    /\ AppIdle
    /\ DocIdle
    /\ FnIdle
    /\ \E n \in 0..MaxFiles :
         \E names \in {{FileName(i) : i \in 1..n},
                       {FileName(i) : i \in 1..n} \cup {OtherName}} :
            /\ listing \in Orders(names)
            /\ fs \in {f \in [names -> DirectoryFiles] :
                          OtherName \in names => f[OtherName] = BadFile}
    /\ json_files = <<>> /\ pos = 0 /\ corpus_list = <<>> /\ idx_counter = 0
    /\ output = <<>> /\ writes = 0 /\ pc = "start" /\ error = Null

\* lines 407-411
ListDirectory ==
    /\ pc = "start"
    /\ json_files' = SelectSeq(listing, LAMBDA f : EndsWith(f, S_json))
    /\ corpus_list' = <<>>
    /\ idx_counter' = 0
    /\ pos' = 1
    /\ pc' = "loop"
    /\ UNCHANGED <<listing, fs, output, writes, error, docvars, fnvars, appvars>>

\* the entries keep the idx the transform gave them
KeepLocalIdx(entries, counter) == entries

\* lines 418-421: each entry takes the next value of idx_counter
GlobalIdx(entries, counter) ==
    [i \in 1..Len(entries) |-> [entries[i] EXCEPT !.idx = counter + i - 1]]

\* lines 416-421: the entries of a file are added to the corpus
Extend(entries) ==
    /\ corpus_list' = corpus_list \o GlobalIdx(entries, idx_counter)
    /\ idx_counter' = idx_counter + Len(entries)
    /\ pos' = pos + 1
    /\ UNCHANGED <<pc, error>>

\* a file whose transform raises is reported and skipped
SkipRaising(transformed) ==
    IF transformed.raised
    THEN pos' = pos + 1 /\ UNCHANGED <<pc, error, corpus_list, idx_counter>>
    ELSE Extend(transformed.entries)

\* lines 414-425: what the transform raises is reported and raised again
Reraise(transformed) ==
    IF transformed.raised
    THEN /\ pc' = "raised"
         /\ error' = transformed.exc
         /\ UNCHANGED <<pos, corpus_list, idx_counter>>
    ELSE Extend(transformed.entries)

\* lines 413-425, one turn of the loop
ProcessFile ==
    /\ pc = "loop"
    /\ pos <= Len(json_files)
    /\ Reraise(transform_law_json_to_articles(fs[json_files[pos]]))
    /\ UNCHANGED <<listing, fs, json_files, output, writes, docvars, fnvars, appvars>>

\* lines 429-430
WriteOutput ==
    /\ pc = "loop"
    /\ pos > Len(json_files)
    /\ output' = corpus_list
    /\ writes' = writes + 1
    /\ pc' = "done"
    /\ UNCHANGED <<listing, fs, json_files, pos, corpus_list, idx_counter, error,
                   docvars, fnvars, appvars>>

Next == ListDirectory \/ ProcessFile \/ WriteOutput

Spec == Init /\ [][Next]_vars

-----------------------------------------------------------------------------
(* one call of an extraction function *)

\* the call returns the value, or raises it when it is an exception
Returns(value) ==
    /\ result' = value
    /\ fpc' = IF IsExc(value) THEN "raised" ELSE "returned"
    /\ UNCHANGED <<node, dirvars, docvars, appvars>>

\* the longest list of sentence nodes
MaxSentences == 2

Text_a == Str(<<"a">>)
Text_b == Str(<<"b">>)

\* what a field of a sentence node holds when it is not a node
TextLeaves == {Text_a, Text_b, EmptyStr, Null, Num(7)}

\* objects of one field
WrappedSentences ==
    {Obj(<< <<key, x>> >>) : key \in {K_text, K_Sentence, K_Other}, x \in TextLeaves}

FieldValues ==
    {Text_a, EmptyStr, Num(7),
     Obj(<< <<K_text, Text_b>> >>), Obj(<< <<K_text, EmptyStr>> >>)}

\* objects of two fields, in the order of the keys
FieldedSentences ==
    {Obj(<< <<keys[1], x>>, <<keys[2], y>> >>) :
        keys \in {<<K_text, K_Sentence>>, <<K_Sentence, K_text>>,
                  <<K_Sentence, K_Other>>, <<K_Other, K_Item>>,
                  <<K_Item, K_Sentence>>},
        x \in FieldValues, y \in FieldValues}

ListedSentences ==
    {Text_a, EmptyStr, Obj(<< <<K_text, Text_b>> >>), Obj(<< <<K_text, Num(7)>> >>),
     Obj(<< <<K_Sentence, List(<<Text_a, Text_b>>)>> >>)}

SentenceLists == {List(<<>>)} \cup ListsOf(ListedSentences, MaxSentences)

NestedSentences ==
    {Obj(<< <<key, x>> >>) : key \in {K_Sentence, K_Other}, x \in SentenceLists}

\* the nodes extract_text_from_sentence is called with
SentenceNodes ==
    TextLeaves \cup {EmptyDict} \cup WrappedSentences \cup FieldedSentences
        \cup SentenceLists \cup NestedSentences

InitSentence ==
    /\ AppIdle
    /\ DirIdle /\ DocIdle
    /\ node \in SentenceNodes /\ result = Null /\ fpc = "call"

\* lines 26-51
ResolveSentence ==
    /\ fpc = "call"
    /\ Returns(extract_text_from_sentence(node))

SpecSentence == InitSentence /\ [][ResolveSentence]_vars

\* the columns of a row: sentence nodes
MaxColumns == 3
Cell_a == Obj(<< <<K_Sentence, Text_a>> >>)
Cell_b == Obj(<< <<K_text, Text_b>> >>)
Cell_empty == Obj(<< <<K_text, EmptyStr>> >>)
Cell_number == Obj(<< <<K_text, Num(7)>> >>)
Cells == {Cell_a, Cell_b, Cell_empty}
ColumnLists == {List(<<>>)} \cup ListsOf(Cells, MaxColumns)
Row(columns) == Obj(<< <<K_TableColumn, columns>> >>)
Row_ab == Row(List(<<Cell_a, Cell_b>>))
Row_empties == Row(List(<<Cell_empty, Cell_empty>>))
Row_lone == Row(Cell_b)
Row_number == Row(List(<<Cell_a, Cell_number>>))
Row_other == Obj(<< <<K_Other, Cell_a>> >>)
Rows ==
    {Row(columns) : columns \in Cells \cup ColumnLists}
        \cup {Row_number, Row(Cell_number), Row_other, Row(Null)}
PickedRows == {Row_ab, Row_empties, Row_lone, Row_number}
RowLists ==
    {List(<<row, picked>>) : row \in Rows, picked \in PickedRows}
        \cup {List(<<picked, row>>) : row \in Rows, picked \in PickedRows}
Table(rows) == Obj(<< <<K_TableRow, rows>> >>)
Tables == {Table(rows) : rows \in Rows \cup RowLists}
PickedTables ==
    {Table(Row_ab), Table(List(<<Row_lone, Row_ab>>)), Table(Row_empties),
     Table(Row_number)}
TableStruct(table) == Obj(<< <<K_Table, table>> >>)
TableNodes ==
    {TableStruct(table) : table \in Tables}
        \cup PickedTables
        \cup {List(<<TableStruct(first), TableStruct(second)>>) :
                 first \in PickedTables, second \in PickedTables}
        \cup {TableStruct(List(<<first, second>>)) :
                 first \in PickedTables, second \in PickedTables}
        \cup {Null, EmptyStr, EmptyDict, List(<<>>), Num(7), Text_a,
              TableStruct(Null), TableStruct(Text_a), Table(Null), Table(Text_a),
              Table(Num(7)), Row_ab, List(<<Row_ab, Row_lone>>)}

InitTable ==
    /\ AppIdle
    /\ DirIdle
    /\ DocIdle
    /\ node \in TableNodes
    /\ result = Null
    /\ fpc = "call"

\* lines 54-104
ExtractTable ==
    /\ fpc = "call"
    /\ Returns(extract_table_content(node))

SpecTable == InitTable /\ [][ExtractTable]_vars

\* the fields of a paragraph, each present or not, in every order
Text_c == Str(<<"c">>)
Text_d == Str(<<"d">>)
ListItem(sentence) == Obj(<< <<K_ListSentence, sentence>> >>)
SentenceFields ==
    {<<K_ParagraphSentence, x>> :
        x \in {Absent, Text_a, Obj(<< <<K_Sentence, Text_a>> >>), EmptyStr,
               Obj(<< <<K_AtNum, Str(<<"9">>)>>, <<K_Sentence, Text_a>> >>),
               Obj(<< <<K_AtNum, Str(<<"9">>)>>,
                      <<K_Other, Obj(<< <<K_text, Text_a>> >>)>> >>)}}
ListFields ==
    {<<K_List, x>> :
        x \in {Absent, ListItem(Text_b), Text_b,
               List(<<ListItem(Text_b), ListItem(Obj(<< <<K_text, Text_c>> >>))>>),
               List(<<ListItem(EmptyStr), Text_b, ListItem(Text_c)>>)}}
TableFields ==
    {<<K_TableStruct, x>> :
        x \in {Absent, TableStruct(Table(Row_ab)), TableStruct(Table(Row_empties)),
               List(<<TableStruct(Table(Row_lone)), TableStruct(Table(Row_ab))>>)}}
OtherFields ==
    {<<K_Other, x>> :
        x \in {Absent, Text_d,
               Obj(<< <<K_ParagraphSentence, Text_d>> >>),
               Obj(<< <<K_Sentence, Text_d>> >>),
               Obj(<< <<K_Item, Obj(<< <<K_Sentence, Obj(<< <<K_text, Text_d>> >>)>> >>)>> >>),
               Obj(<< <<K_Item, Obj(<< <<K_ParagraphSentence, Text_d>> >>)>> >>),
               List(<<Obj(<< <<K_ParagraphSentence, Text_d>> >>),
                      Obj(<< <<K_List, ListItem(Text_c)>> >>)>>)}}
        \cup {<<K_ParagraphNum, Obj(<< <<K_ParagraphSentence, Text_d>> >>)>>}
FieldOrders == Orders({1, 2, 3, 4})
Paragraphs ==
    {Obj(<<fields[order[1]], fields[order[2]], fields[order[3]], fields[order[4]]>>) :
        fields \in SentenceFields \X ListFields \X TableFields \X OtherFields,
        order \in FieldOrders}
PickedParagraphs ==
    {Para_a, Para_b, Para_table, Para_empty, Para_nested, Text_a}
ParagraphNodes ==
    Paragraphs
        \cup {List(<<>>), Null, Text_a, Num(7), Para_number}
        \cup ListsOf(PickedParagraphs, 2)

InitParagraph ==
    /\ AppIdle
    /\ DirIdle
    /\ DocIdle
    /\ node \in ParagraphNodes
    /\ result = Null
    /\ fpc = "call"

\* lines 107-181
ProcessParagraph ==
    /\ fpc = "call"
    /\ Returns(process_paragraph_content(node))

SpecParagraph == InitParagraph /\ [][ProcessParagraph]_vars

\* a function that returns entries returns or raises
ReturnsEntries(returned) ==
    /\ result' = returned
    /\ fpc' = IF returned.raised THEN "raised" ELSE "returned"
    /\ UNCHANGED <<node, dirvars, docvars, appvars>>

\* provisions: text leaves under fields of any name, at several depths
TextObjects ==
    {Obj(<< <<K_text, x>> >>) :
        x \in {Text_a, Str(<<" ", "b", " ">>), Str(<<" ">>), EmptyStr, Num(7)}}
NestedTexts ==
    TextObjects
        \cup {Obj(<< <<K_Item, x>>, <<K_text, Text_c>> >>) : x \in TextObjects}
        \cup ListsOf(TextObjects, MaxSentences)
        \cup {Absent, Text_a, Obj(<< <<K_text, Obj(<< <<K_text, Text_a>> >>)>> >>)}
ProvisionLabels == {Absent, Str(<<"L">>), Obj(<< <<K_text, Str(<<"L">>)>> >>)}
TextProvisions ==
    {Obj(<< <<K_SupplProvisionLabel, label>>, <<K_AtAmendLawNum, amend_law_num>>,
            <<K_Other, nested>>, <<K_text, leaf>> >>) :
        label \in ProvisionLabels, amend_law_num \in {Absent, Str(<<"m">>), EmptyStr},
        nested \in NestedTexts, leaf \in {Absent, Text_d}}

\* provisions with articles, paragraphs and text leaves, each present or not
Para_five ==
    Obj(<< <<K_ParagraphNum, Str(<<"5">>)>>, <<K_ParagraphSentence, Text_a>> >>)
Para_unnumbered ==
    Obj(<< <<K_ParagraphNum, EmptyStr>>, <<K_ParagraphSentence, Text_b>> >>)
ProvisionArticles ==
    {Absent, Art_titled, Art_untitled, Art_empty, Art_number}
        \cup ListsOf({Art_titled, Art_untitled, Art_empty}, MaxArticles)
ProvisionParagraphs ==
    {Absent, Para_b, Para_five, Para_unnumbered, Para_empty, Para_number}
        \cup ListsOf({Para_b, Para_five, Para_unnumbered, Para_empty}, 2)
ProvisionHeads ==
    {<<Absent, Absent>>, <<Str(<<"L">>), Str(<<"m">>)>>, <<Absent, EmptyStr>>}
TieredProvisions ==
    {Obj(<< <<K_SupplProvisionLabel, head[1]>>, <<K_AtAmendLawNum, head[2]>>,
            <<K_Article, articles>>, <<K_Paragraph, paragraphs>>,
            <<K_Other, nested>> >>) :
        head \in ProvisionHeads, articles \in ProvisionArticles,
        paragraphs \in ProvisionParagraphs,
        nested \in {Absent, Obj(<< <<K_text, Text_d>> >>)}}
ProvisionNodes == TextProvisions \cup SupplProvisions \cup TieredProvisions

InitProvision ==
    /\ AppIdle
    /\ DirIdle
    /\ file = Null /\ tpc = "idle" /\ law = Null
    /\ corpus_entries = <<>> /\ origin = <<>> /\ ret = Ok(<<>>)
    /\ main_title \in {<<>>, <<"t">>}
    /\ prov_idx \in {0, 1}
    /\ node \in ProvisionNodes
    /\ result = Null
    /\ fpc = "call"

\* lines 240-326
ProcessProvision ==
    /\ fpc = "call"
    /\ ReturnsEntries(process_supplementary_provision(node, prov_idx, main_title))

SpecProvision == InitProvision /\ [][ProcessProvision]_vars

\* articles: a title, paragraphs, an attribute and another field, each
\* present or not, in every order
TitleFields ==
    {<<K_ArticleTitle, x>> :
        x \in {Absent, Str(<<"t">>), EmptyStr, Obj(<< <<K_text, Str(<<"t">>)>> >>)}}
ParagraphFields ==
    {<<K_Paragraph, x>> :
        x \in {Absent, Para_a, Para_empty, Para_number, Text_a,
               List(<<Para_b, Para_a>>), List(<<Para_empty, Para_b>>), List(<<>>)}}
AttributeFields ==
    {<<K_AtNum, x>> : x \in {Absent, Obj(<< <<K_ParagraphSentence, Text_c>> >>)}}
ExtraFields ==
    {<<K_Other, x>> :
        x \in {Absent, Text_d, Obj(<< <<K_ParagraphSentence, Text_d>> >>),
               Obj(<< <<K_ParagraphSentence, EmptyStr>> >>),
               List(<<Para_empty, Obj(<< <<K_ParagraphSentence, Text_d>> >>)>>)}}
ArticleObjects ==
    {Obj(<<fields[order[1]], fields[order[2]], fields[order[3]], fields[order[4]]>>) :
        fields \in TitleFields \X ParagraphFields \X AttributeFields \X ExtraFields,
        order \in FieldOrders}
ArticleNodes ==
    ArticleObjects
        \cup {Null, Num(7), Text_a, Str(K_Paragraph), List(<<>>),
              List(<<Str(K_ArticleTitle)>>), List(<<Para_a>>)}

InitArticle ==
    /\ AppIdle
    /\ DirIdle
    /\ DocIdle
    /\ node \in ArticleNodes
    /\ result = Null
    /\ fpc = "call"

\* lines 184-212
ProcessArticle ==
    /\ fpc = "call"
    /\ Returns(process_article(node))

SpecArticle == InitArticle /\ [][ProcessArticle]_vars

\* trees with strs under the text key and under other keys
TextTrees ==
    TextProvisions \cup SentenceNodes \cup (NestedTexts \ {Absent})
        \cup {Prov_text, Para_a, Art_table}

InitTexts ==
    /\ AppIdle
    /\ DirIdle
    /\ DocIdle
    /\ node \in TextTrees
    /\ result = Null
    /\ fpc = "call"

\* line 23: the list of the collected strs
TextList(text_list) == List([i \in 1..Len(text_list) |-> Str(text_list[i])])

\* lines 8-23
CollectTexts ==
    /\ fpc = "call"
    /\ Returns(TextList(extract_all_text_fields(node)))

SpecTexts == InitTexts /\ [][CollectTexts]_vars

-----------------------------------------------------------------------------
(* what the claims speak of *)

\* the titles and texts of entries, without their idx
Untagged(entries) ==
    [i \in 1..Len(entries) |-> <<entries[i].title, entries[i].text>>]

\* entry i of the list has idx i, counted from 0
Positioned(entries) == \A i \in 1..Len(entries) : entries[i].idx = i - 1

\* what the file at position k of json_files contributes
EmittedBy(k) == transform_law_json_to_articles(fs[json_files[k]])

RECURSIVE InFileOrder(_)
InFileOrder(k) ==
    IF k > Len(json_files) THEN <<>>
    ELSE Untagged(EmittedBy(k).entries) \o InFileOrder(k + 1)

\* C1: after process_directory succeeds, the written corpus holds the entries
\* of the files in processing order, each file's entries in the order the
\* transform emitted them, and the entry at list index i has idx i.
C1_GlobalPositions ==
    pc = "done" =>
        /\ Untagged(output) = InFileOrder(1)
        /\ Positioned(output)
        /\ Cardinality({output[i].idx : i \in 1..Len(output)}) = Len(output)

C1_Witness ==
    /\ pc = "done"
    /\ Len(json_files) >= 2
    /\ \A k \in 1..Len(json_files) : Len(EmittedBy(k).entries) >= 2
    /\ Len(output) >= 4

\* C2: when the transform raises for a file, process_directory raises that
\* exception, no later file is processed and the output file is never
\* opened; the output is written once, after every file was transformed.
C2_FailFast ==
    /\ pc \in {"loop", "raised", "done"} =>
          \A k \in 1..(pos - 1) : k <= Len(json_files) /\ ~EmittedBy(k).raised
    /\ pc = "raised" =>
          /\ EmittedBy(pos).raised
          /\ error = EmittedBy(pos).exc
          /\ writes = 0
          /\ output = <<>>
    /\ writes <= 1
    /\ writes = 1 <=> pc = "done"
    /\ pc = "done" => pos = Len(json_files) + 1

C2_Witness ==
    /\ pc = "raised"
    /\ pos >= 2
    /\ pos < Len(json_files)
    /\ corpus_list # <<>>
    /\ writes = 0

-----------------------------------------------------------------------------

LawBody == DictGet(law, K_LawBody, EmptyDict)

\* the document has a main provision with articles and no supplementary
\* provision, and the call returned
MainArticlesOnly ==
    /\ tpc = "done"
    /\ HasKey(LawBody, K_MainProvision)
    /\ IsDict(Item(LawBody, K_MainProvision))
    /\ HasKey(Item(LawBody, K_MainProvision), K_Article)
    /\ ~HasKey(LawBody, K_SupplProvision)

\* its articles, a lone article counting as a list of one
MainArticles ==
    LET articles == Item(Item(LawBody, K_MainProvision), K_Article)
    IN  IF IsList(articles) THEN articles.v ELSE <<articles>>

\* the text of each article
Rendered == [i \in 1..Len(MainArticles) |-> process_article(MainArticles[i]).s]

NonBlank(text) == Strip(text) # <<>>

\* C3, as claimed: N main articles that each render to non-empty text, and
\* no supplementary provision, give N entries, one per article in order,
\* with idx 0..N-1.
C3_Original ==
    (MainArticlesOnly /\ \A i \in 1..Len(Rendered) : Rendered[i] # <<>>) =>
        /\ Len(ret.entries) = Len(Rendered)
        /\ Positioned(ret.entries)
        /\ [i \in 1..Len(ret.entries) |-> ret.entries[i].text] = Rendered

\* C3, amended: the entries are those of the articles whose text is not
\* blank (not only whitespace), one per such article in article order, with
\* idx 0..N-1; an article whose text is blank contributes no entry, and when
\* every article is blank no entry comes from an article.
C3_ArticleEntries ==
    MainArticlesOnly =>
        IF \E i \in 1..Len(Rendered) : NonBlank(Rendered[i])
        THEN /\ [i \in 1..Len(ret.entries) |-> ret.entries[i].text]
                    = SelectSeq(Rendered, NonBlank)
             /\ Positioned(ret.entries)
             /\ \A i \in 1..Len(origin) : origin[i] = 0
        ELSE origin = <<-1>>

C3_Witness ==
    /\ MainArticlesOnly
    /\ Len(Rendered) >= 2
    /\ \A i \in 1..Len(Rendered) : NonBlank(Rendered[i])
    /\ Len(ret.entries) = Len(Rendered)

\* the entries of corpus_entries that origin attributes to o
From(o) ==
    LET RECURSIVE Pick(_)
        Pick(i) == IF i > Len(corpus_entries) THEN <<>>
                   ELSE (IF origin[i] = o THEN <<corpus_entries[i]>> ELSE <<>>)
                            \o Pick(i + 1)
    IN  Pick(1)

\* C4: the returned list has idx equal to the list index; the entries of the
\* main provision come first, then those of the supplementary provisions,
\* provision by provision in document order, each provision's entries in
\* the order process_supplementary_provision returned them.
C4_LocalOrder ==
    tpc = "done" =>
        /\ ret.entries = corpus_entries
        /\ Positioned(ret.entries)
        /\ Len(origin) = Len(ret.entries)
        /\ \A i, j \in 1..Len(origin) :
              (i < j /\ origin[i] >= 0) => origin[i] <= origin[j]
        /\ \A p \in 1..Len(Provisions(law)) :
              Untagged(From(p)) =
                  Untagged(process_supplementary_provision(
                               Provisions(law)[p], p - 1, main_title).entries)

C4_Witness ==
    /\ tpc = "done"
    /\ Len(From(0)) >= 2
    /\ Len(From(1)) >= 2
    /\ Len(From(2)) >= 2

\* the text the document-level fallback collects from the whole document
Collected == Join(S_Newline, extract_all_text_fields(file))

\* the metadata string: law identifier, era, year and number
Synthesized ==
    LET Field(key) == IF HasKey(law, key) THEN PyStr(Item(law, key)) ELSE <<>>
    IN  <<"L", "a", "w", ":", " ">> \o Field(K_LawNum)
            \o <<"\n", "E", "r", "a", ":", " ">> \o Field(K_AtEra)
            \o <<",", " ", "Y", "e", "a", "r", ":", " ">> \o Field(K_AtYear)
            \o <<",", " ", "N", "u", "m", "b", "e", "r", ":", " ">> \o Field(K_AtNum)

\* C5: every emitted entry has a non-empty text: an entry of an article, a
\* paragraph or a supplementary fallback has a text that is not blank, and
\* the document-level fallback entry carries the collected text or, when
\* that is empty, the synthesized metadata string.
C5_TextNonEmpty ==
    \A i \in 1..Len(corpus_entries) :
        /\ corpus_entries[i].text # <<>>
        /\ origin[i] >= 0 => NonBlank(corpus_entries[i].text)
        /\ origin[i] = -1 =>
              corpus_entries[i].text = (IF Collected # <<>> THEN Collected
                                        ELSE Synthesized)

C5_Witness ==
    /\ tpc = "done"
    /\ MainArticlesOnly
    /\ \E i \in 1..Len(Rendered) : ~NonBlank(Rendered[i])
    /\ \E i \in 1..Len(Rendered) : Rendered[i] = <<" ">>
    /\ Len(corpus_entries) >= 1
    /\ Len(corpus_entries) < Len(Rendered)
    /\ origin[1] = 0

\* C6: the title of every emitted entry is a non-empty string, also for a
\* document without law title and law identifier and for the document-level
\* fallback entry.
C6_TitleNonEmpty ==
    \A i \in 1..Len(corpus_entries) : corpus_entries[i].title # <<>>

\* main-provision and supplementary-provision processing emitted nothing
NothingStructured ==
    /\ MainProvisionEntries(law, main_title).entries = <<>>
    /\ \A p \in 1..Len(Provisions(law)) :
          process_supplementary_provision(Provisions(law)[p], p - 1,
                                          main_title).entries = <<>>

\* C7: the document-level fallback entry is emitted if and only if the main
\* and supplementary provisions emitted no entry; the result is then one
\* entry with idx 0, the composed document title, and the newline-joined
\* text collection of the whole document or, when that is empty, the
\* synthesized string.
C7_FallbackIffEmpty ==
    tpc = "done" =>
        /\ (\E i \in 1..Len(origin) : origin[i] = -1) <=> NothingStructured
        /\ NothingStructured =>
              ret.entries = <<[title |-> extract_title(law).s,
                               text |-> IF Collected # <<>> THEN Collected
                                        ELSE Synthesized,
                               idx |-> 0]>>

C7_Witness ==
    /\ tpc = "done"
    /\ origin = <<-1>>
    /\ HasKey(file, K_Other)
    /\ Collected # <<>>

-----------------------------------------------------------------------------

\* the str under key of the title node; an absent field is the empty str
TitleField(key) ==
    IF HasKey(LawBody, K_LawTitle) /\ HasKey(Item(LawBody, K_LawTitle), key)
    THEN Item(Item(LawBody, K_LawTitle), key).s ELSE <<>>

LawIdentifier == IF HasKey(law, K_LawNum) THEN Item(law, K_LawNum).s ELSE <<>>

\* the title node is absent or an object, and the main text, the
\* abbreviation and the law identifier are absent or strs
PlainTitle ==
    /\ tpc \in {"main", "suppl", "done"}
    /\ HasKey(LawBody, K_LawTitle) =>
          /\ IsDict(Item(LawBody, K_LawTitle))
          /\ \A key \in {K_text, K_AtAbbrev} :
                HasKey(Item(LawBody, K_LawTitle), key) =>
                    IsStr(Item(Item(LawBody, K_LawTitle), key))
    /\ HasKey(law, K_LawNum) => IsStr(Item(law, K_LawNum))

\* C8: the title is main_text, replaced by "main_text (abbreviation)" when
\* an abbreviation is present and differs from main_text, then prefixed by
\* "law_identifier: " when the law identifier is non-empty and not already a
\* substring of it, then trimmed.
C8_TitleRule ==
    PlainTitle =>
        LET main_text == TitleField(K_text)
            abbreviation == TitleField(K_AtAbbrev)
            with_abbreviation ==
                IF abbreviation # <<>> /\ abbreviation # main_text
                THEN main_text \o <<" ", "(">> \o abbreviation \o <<")">>
                ELSE main_text
            with_identifier ==
                IF LawIdentifier # <<>> /\ ~Contains(LawIdentifier, with_abbreviation)
                THEN LawIdentifier \o <<":", " ">> \o with_abbreviation
                ELSE with_abbreviation
        IN  main_title = Strip(with_identifier)

C8_Witness ==
    /\ PlainTitle
    /\ tpc = "main"
    /\ TitleField(K_text) = <<"a", "b">>
    /\ TitleField(K_AtAbbrev) = <<"a">>
    /\ LawIdentifier = <<"n", " ">>
    /\ main_title = <<"n", " ", ":", " ", "a", "b", " ", "(", "a", ")">>

\* C9: extract_title never fails, whatever fields are absent and whatever
\* shape the title node has: the call does not raise while composing the
\* title of a document node.
C9_TitleNeverFails ==
    (tpc = "raised" /\ IsDict(law)) => ~IsExc(extract_title(law))

\* C10: a structural anomaly is never raised to the caller: for every
\* well-formed tree the transform returns a list of entries.
C10_NeverRaises ==
    file # BadFile => tpc # "raised"

-----------------------------------------------------------------------------

\* C11: extract_text_from_sentence never raises and always returns a str,
\* and it returns the empty str when the value under the text key is not a
\* str.
C11_AlwaysText ==
    fpc # "call" =>
        /\ fpc = "returned"
        /\ IsStr(result)
        /\ (IsDict(node) /\ HasKey(node, K_text) /\ ~IsStr(Item(node, K_text)))
              => result = EmptyStr

\* the resolution of a field of the node
Resolution(i) == extract_text_from_sentence(node.v[i])

\* the scan of the fields stops at field i: a str, or a nested object or
\* sequence whose resolution is not empty
Stops(i) ==
    \/ IsStr(node.v[i])
    \/ /\ IsDict(node.v[i]) \/ IsList(node.v[i])
       /\ Resolution(i) # EmptyStr

\* the resolutions of the elements of a sequence that are not empty
Resolutions ==
    SelectSeq([i \in 1..Len(node.v) |-> Resolution(i)], LAMBDA r : r # EmptyStr)

\* C19: extract_text_from_sentence resolves in this order: the text leaf of
\* an object, also when it has a Sentence field; else the resolution of its
\* Sentence field; else, scanning the fields in order, the first str value
\* or the first non-empty resolution of a nested object or sequence met
\* before any str; a sequence gives the non-empty resolutions of its
\* elements in order, joined by single spaces.
C19_ResolutionOrder ==
    fpc = "returned" =>
        /\ (IsDict(node) /\ HasKey(node, K_text) /\ IsStr(Item(node, K_text)))
              => result = Item(node, K_text)
        /\ (IsDict(node) /\ ~HasKey(node, K_text) /\ HasKey(node, K_Sentence))
              => result = extract_text_from_sentence(Item(node, K_Sentence))
        /\ (IsDict(node) /\ ~HasKey(node, K_text) /\ ~HasKey(node, K_Sentence))
              => IF \E i \in 1..Len(node.v) : Stops(i)
                 THEN LET first == CHOOSE i \in 1..Len(node.v) :
                                       Stops(i) /\ \A j \in 1..(i - 1) : ~Stops(j)
                      IN  result = (IF IsStr(node.v[first]) THEN node.v[first]
                                    ELSE Resolution(first))
                 ELSE result = EmptyStr
        /\ IsList(node)
              => result = Str(Join(<<" ">>,
                                   [i \in 1..Len(Resolutions) |-> Resolutions[i].s]))

\* a text leaf beside a Sentence field that resolves to another text, and a
\* scan that passed an empty resolution before it met a str
C19_Witness ==
    /\ fpc = "returned"
    /\ IsDict(node)
    /\ \/ /\ HasKey(node, K_text) /\ HasKey(node, K_Sentence)
          /\ result = Text_a
          /\ extract_text_from_sentence(Item(node, K_Sentence)) = Text_b
       \/ /\ node.k = <<K_Other, K_Item>>
          /\ IsDict(node.v[1]) /\ Resolution(1) = EmptyStr
          /\ result = Text_a

-----------------------------------------------------------------------------

\* the characters of the file names, by code point
CodePoints == <<".", "0", "1", "2", "3", "4", "5", "6", "7", "8", "9",
                "j", "n", "o", "s", "t", "x">>
CodePoint(c) == CHOOSE i \in 1..Len(CodePoints) : CodePoints[i] = c

\* a < b for two file names
RECURSIVE Precedes(_, _)
Precedes(a, b) ==
    IF b = <<>> THEN FALSE
    ELSE IF a = <<>> THEN TRUE
    ELSE IF Head(a) # Head(b) THEN CodePoint(Head(a)) < CodePoint(Head(b))
    ELSE Precedes(Tail(a), Tail(b))

\* C12: process_directory processes the document files in sorted filename
\* order, whatever the order in which the directory lists them, so the
\* corpus it writes does not depend on the listing order.
C12_SortedOrder ==
    pc = "done" =>
        \A i, j \in 1..Len(json_files) :
            i < j => Precedes(json_files[i], json_files[j])

-----------------------------------------------------------------------------

\* a table structure opened, a sequence as a sequence of its elements
Opened(structure) ==
    IF IsDict(structure) /\ HasKey(structure, K_Table)
    THEN Item(structure, K_Table) ELSE structure
Elements(x) == IF IsList(x) THEN x.v ELSE <<x>>

\* a table holds rows, each row an object
IsTable(table) ==
    /\ IsDict(table)
    /\ HasKey(table, K_TableRow)
    /\ \A i \in 1..Len(Elements(Item(table, K_TableRow))) :
           IsDict(Elements(Item(table, K_TableRow))[i])

\* the tables of a table block: one table structure, one table, or a
\* sequence of them
TablesOfBlock(block) ==
    [i \in 1..Len(Elements(block)) |-> Opened(Elements(block)[i])]
IsTableBlock(block) ==
    /\ Elements(block) # <<>>
    /\ \A i \in 1..Len(Elements(block)) : IsTable(TablesOfBlock(block)[i])

RECURSIVE RowsOfTables(_)
RowsOfTables(tables) ==
    IF tables = <<>> THEN <<>>
    ELSE Elements(Item(Head(tables), K_TableRow)) \o RowsOfTables(Tail(tables))

\* what the columns of a row resolve to
CellsOfRow(row) ==
    IF HasKey(row, K_TableColumn)
    THEN [i \in 1..Len(Elements(Item(row, K_TableColumn))) |->
             extract_text_from_sentence(Elements(Item(row, K_TableColumn))[i])]
    ELSE <<>>
HasText(row) ==
    \E i \in 1..Len(CellsOfRow(row)) :
        IsStr(CellsOfRow(row)[i]) /\ CellsOfRow(row)[i] # EmptyStr
RowsWithText(block) == SelectSeq(RowsOfTables(TablesOfBlock(block)), HasText)

\* the lines of a text
RECURSIVE SplitLines(_, _)
SplitLines(chars, line) ==
    IF chars = <<>> THEN <<line>>
    ELSE IF Head(chars) = "\n" THEN <<line>> \o SplitLines(Tail(chars), <<>>)
    ELSE SplitLines(Tail(chars), Append(line, Head(chars)))
Lines(text) == IF text.s = <<>> THEN <<>> ELSE SplitLines(text.s, <<>>)

\* C14: extract_table_content outputs exactly one markdown line per table
\* row that has at least one column resolving to non-empty text, in row
\* order, and no line for a row whose every column resolves to empty: a
\* table with one row of three non-empty cells and one row of only empty
\* cells yields exactly one line.
C14_LinePerRow ==
    (fpc = "returned" /\ IsTableBlock(node)) =>
        /\ IsStr(result)
        /\ Len(Lines(result)) = Len(RowsWithText(node))
        /\ \A i \in 1..Len(RowsWithText(node)) :
             \A j \in 1..Len(CellsOfRow(RowsWithText(node)[i])) :
                Contains(CellsOfRow(RowsWithText(node)[i])[j].s, Lines(result)[i])

C14_Witness ==
    /\ fpc = "returned"
    /\ node = TableStruct(Table(List(<<Row(List(<<Cell_a, Cell_b, Cell_a>>)),
                                      Row_empties>>)))
    /\ Len(Lines(result)) = 1

\* C17: every row line has the form "| cell1 | cell2 | ... |" with exactly
\* one cell per column of the source row, in column order, each cell the
\* resolution of its column, a lone column counting as a row of one: a column
\* that resolves to empty in a row with other texts keeps its cell position.
C17_CellPerColumn ==
    (fpc = "returned" /\ IsTableBlock(node)
        /\ Len(Lines(result)) = Len(RowsWithText(node))) =>
        \A i \in 1..Len(RowsWithText(node)) :
            Lines(result)[i] =
                S_RowOpen
                \o Join(S_RowSep,
                        [j \in 1..Len(CellsOfRow(RowsWithText(node)[i])) |->
                            CellsOfRow(RowsWithText(node)[i])[j].s])
                \o S_RowClose

\* the renderings of the tables of a block that are not empty
Renderings(tables) ==
    SelectSeq([i \in 1..Len(tables) |-> extract_table_content(tables[i])],
              LAMBDA text : text # EmptyStr)

\* C18: a table block holding several tables is rendered completely: the
\* output holds the row lines of every table, in table order then row order,
\* joined by newlines, both for a sequence of table structures and for one
\* table structure whose Table field is a sequence of tables.
C18_EveryTable ==
    (/\ fpc = "returned"
     /\ IsList(node) \/ (IsDict(node) /\ IsList(Opened(node)))
     /\ \A i \in 1..Len(Elements(Opened(node))) :
            /\ IsTable(Opened(Elements(Opened(node))[i]))
            /\ IsStr(extract_table_content(Elements(Opened(node))[i])))
    => result = Str(Join(S_Newline,
                         [i \in 1..Len(Renderings(Elements(Opened(node)))) |->
                             Renderings(Elements(Opened(node)))[i].s]))

-----------------------------------------------------------------------------

\* the texts of a sequence that are not empty
NonEmpty(texts) == SelectSeq(texts, LAMBDA text : text # EmptyStr)

\* the single-space join of the non-empty texts
SpaceJoined(texts) ==
    Str(Join(S_Space, [i \in 1..Len(NonEmpty(texts)) |-> NonEmpty(texts)[i].s]))

\* the resolved direct sentence of a paragraph
DirectSentence(paragraph) ==
    IF HasKey(paragraph, K_ParagraphSentence)
    THEN <<extract_text_from_sentence(Item(paragraph, K_ParagraphSentence))>>
    ELSE <<>>

\* the text of a list item: that of its ListSentence; a list that is neither
\* an object nor a sequence is its own sentence
ItemText(item) ==
    IF IsDict(item) /\ HasKey(item, K_ListSentence)
    THEN extract_text_from_sentence(Item(item, K_ListSentence))
    ELSE EmptyStr
ItemTexts(paragraph) ==
    IF ~HasKey(paragraph, K_List) THEN <<>>
    ELSE IF IsDict(Item(paragraph, K_List)) \/ IsList(Item(paragraph, K_List))
    THEN [i \in 1..Len(Elements(Item(paragraph, K_List))) |->
             ItemText(Elements(Item(paragraph, K_List))[i])]
    ELSE <<extract_text_from_sentence(Item(paragraph, K_List))>>
Bulleted(texts) ==
    [i \in 1..Len(NonEmpty(texts)) |-> Str(S_Bullet \o NonEmpty(texts)[i].s)]

\* the renderings of the tables of a paragraph
TableRenderings(paragraph) ==
    IF HasKey(paragraph, K_TableStruct)
    THEN [i \in 1..Len(Elements(Item(paragraph, K_TableStruct))) |->
             extract_table_content(Elements(Item(paragraph, K_TableStruct))[i])]
    ELSE <<>>

\* the fields of a paragraph outside the exclusion set that hold an object
\* or a sequence, by position
Extension(paragraph) ==
    SelectSeq([i \in 1..Len(paragraph.k) |-> i],
              LAMBDA i : /\ paragraph.k[i] \notin ParagraphSkipped
                         /\ IsDict(paragraph.v[i]) \/ IsList(paragraph.v[i]))
ExtensionTexts(paragraph) ==
    [i \in 1..Len(Extension(paragraph)) |->
        process_paragraph_content(paragraph.v[Extension(paragraph)[i]])]

\* C20: for a paragraph object process_paragraph_content returns the
\* single-space join of its non-empty parts in a fixed order, whatever the
\* order of the fields: the resolved direct sentence, one "- " part per list
\* item with text in item order, the table renderings, the texts under the
\* other fields in field order; for a sequence of paragraphs, the
\* single-space join of the non-empty results of its elements in order.
C20_FixedOrder ==
    fpc = "returned" =>
        /\ IsDict(node) =>
              result = SpaceJoined(DirectSentence(node)
                                   \o Bulleted(ItemTexts(node))
                                   \o TableRenderings(node)
                                   \o ExtensionTexts(node))
        /\ IsList(node) =>
              result = SpaceJoined([i \in 1..Len(node.v) |->
                                       process_paragraph_content(node.v[i])])

\* a paragraph whose List field comes before its direct sentence and its
\* other field before its table
C20_Witness ==
    /\ fpc = "returned"
    /\ IsDict(node)
    /\ node.k = <<K_Other, K_List, K_TableStruct, K_ParagraphSentence>>
    /\ result = Str(<<"a", " ", "-", " ", "b", " ", "|", " ", "a", " ", "|",
                      " ", "b", " ", "|", " ", "d">>)

\* the texts held at any depth under a text key or a Sentence field
RECURSIVE TextsUnder(_)
TextsUnder(x) ==
    IF ~(IsDict(x) \/ IsList(x)) THEN {}
    ELSE UNION {TextsUnder(x.v[i]) : i \in 1..Len(x.v)}
         \cup (IF IsDict(x)
                THEN {x.v[i].s : i \in {j \in 1..Len(x.v) :
                                          /\ x.k[j] \in {K_text, K_Sentence}
                                          /\ IsStr(x.v[j])}}
                ELSE {})

\* C16: for a paragraph object, every non-empty text nested at any depth
\* under a field outside the exclusion set (a sentence or a text leaf) is
\* part of the result of process_paragraph_content.
C16_NestedTextKept ==
    (fpc = "returned" /\ IsDict(node)) =>
        \A i \in 1..Len(node.k) :
            node.k[i] \notin ParagraphSkipped =>
                \A text \in TextsUnder(node.v[i]) :
                    text # <<>> => IsStr(result) /\ Contains(text, result.s)

-----------------------------------------------------------------------------

\* the str values held under a text key, depth first: the fields of an
\* object in field order, the elements of a sequence in sequence order
RECURSIVE TextLeavesOf(_)
RECURSIVE TextLeavesFrom(_, _)
TextLeavesFrom(x, i) ==
    IF i > Len(x.v) THEN <<>>
    ELSE (IF IsDict(x) /\ x.k[i] = K_text /\ IsStr(x.v[i])
          THEN <<x.v[i].s>> ELSE TextLeavesOf(x.v[i]))
         \o TextLeavesFrom(x, i + 1)
TextLeavesOf(x) == IF IsDict(x) \/ IsList(x) THEN TextLeavesFrom(x, 1) ELSE <<>>

\* the leaves trimmed, without the blank ones
Trimmed(leaves) ==
    SelectSeq([i \in 1..Len(leaves) |-> Strip(leaves[i])], LAMBDA leaf : leaf # <<>>)

\* C13: for a provision with no articles and no paragraphs,
\* process_supplementary_provision returns exactly one entry, titled with the
\* title of the provision, whose text is the newline-joined depth-first
\* collection of the trimmed non-blank text leaves of the provision, and no
\* entry when the provision has no such text.
C13_ProvisionFallback ==
    (/\ fpc = "returned"
     /\ IsDict(node)
     /\ ~HasKey(node, K_Article)
     /\ ~HasKey(node, K_Paragraph))
    => IF Trimmed(TextLeavesOf(node)) = <<>>
       THEN result.entries = <<>>
       ELSE /\ Len(result.entries) = 1
            /\ result.entries[1].title = ProvisionTitle(node, prov_idx, main_title)
            /\ result.entries[1].text = Join(S_Newline, Trimmed(TextLeavesOf(node)))

\* leaves at two depths, one of them blank and one of them trimmed
C13_Witness ==
    /\ fpc = "returned"
    /\ IsDict(node)
    /\ ~HasKey(node, K_Article) /\ ~HasKey(node, K_Paragraph)
    /\ HasKey(node, K_text)
    /\ Len(TextLeavesOf(node)) >= 3
    /\ Len(Trimmed(TextLeavesOf(node))) = 2
    /\ Trimmed(TextLeavesOf(node))[1] = <<"b">>
    /\ Len(result.entries) = 1

-----------------------------------------------------------------------------

\* the heading line of an article that has a title field
HeadingLine(article) ==
    IF HasKey(article, K_ArticleTitle)
    THEN <<Str(S_Heading \o PyStr(Item(article, K_ArticleTitle)))>>
    ELSE <<>>

\* the renderings of the paragraphs of an article, a lone paragraph as a
\* sequence of one
ParagraphRenderings(article) ==
    IF HasKey(article, K_Paragraph)
    THEN [i \in 1..Len(Elements(Item(article, K_Paragraph))) |->
             process_paragraph_content(Elements(Item(article, K_Paragraph))[i])]
    ELSE <<>>

\* the renderings of the fields of an article other than the title, the
\* paragraphs, @Delete, @Hide and @Num, in field order
OtherFieldsOf(article) ==
    SelectSeq([i \in 1..Len(article.k) |-> i],
              LAMBDA i : /\ article.k[i] \notin ArticleSkipped
                         /\ IsDict(article.v[i]) \/ IsList(article.v[i]))
OtherRenderings(article) ==
    [i \in 1..Len(OtherFieldsOf(article)) |->
        process_paragraph_content(article.v[OtherFieldsOf(article)[i]])]

\* the parts of an article that are not empty
ArticleParts(article) ==
    HeadingLine(article)
    \o NonEmpty(ParagraphRenderings(article))
    \o NonEmpty(OtherRenderings(article))

\* C21: process_article returns its parts joined by a blank line: the
\* heading line "## title" when the article has a title field, then the
\* non-empty rendering of each paragraph in order, then the non-empty
\* renderings of the fields other than title, paragraphs, @Delete, @Hide and
\* @Num; an article with a title yields non-empty text, an article with
\* neither a title nor any content that renders yields the empty string.
C21_ArticleParts ==
    (fpc = "returned" /\ IsDict(node)) =>
        /\ result = Str(Join(S_BlankLine,
                             [i \in 1..Len(ArticleParts(node)) |->
                                 ArticleParts(node)[i].s]))
        /\ HasKey(node, K_ArticleTitle) => result # EmptyStr
        /\ (/\ ~HasKey(node, K_ArticleTitle)
            /\ NonEmpty(ParagraphRenderings(node)) = <<>>
            /\ NonEmpty(OtherRenderings(node)) = <<>>) => result = EmptyStr

\* an article whose other field comes first, then its paragraphs, then its
\* title, each of them with text
C21_Witness ==
    /\ fpc = "returned"
    /\ IsDict(node)
    /\ node.k = <<K_Other, K_Paragraph, K_ArticleTitle>>
    /\ Len(NonEmpty(ParagraphRenderings(node))) = 2
    /\ Len(NonEmpty(OtherRenderings(node))) = 1
    /\ Len(ArticleParts(node)) = 4

-----------------------------------------------------------------------------

\* the provisional title of the provision of the call: the document title,
\* the label of the provision or "Supplementary Provision" with its position
\* counted from 1, and the amendment law number in brackets if it is not
\* empty
ProvisionalLabel ==
    IF HasKey(node, K_SupplProvisionLabel)
    THEN PyStr(Item(node, K_SupplProvisionLabel))
    ELSE S_SupplementaryProvision \o IntToStr(prov_idx + 1)
ProvisionalTitle ==
    main_title \o S_Dash \o ProvisionalLabel
        \o (IF HasKey(node, K_AtAmendLawNum) /\ Item(node, K_AtAmendLawNum) # EmptyStr
            THEN S_Open \o PyStr(Item(node, K_AtAmendLawNum)) \o S_Close
            ELSE <<>>)

StartsWith(s, prefix) == Len(s) >= Len(prefix) /\ SubSeq(s, 1, Len(prefix)) = prefix

\* the kind of an entry, by its title
IsFallbackEntry(entry) == entry.title = ProvisionalTitle
IsParagraphEntry(entry) == StartsWith(entry.title, ProvisionalTitle \o S_Paragraph)
IsArticleEntry(entry) == ~IsFallbackEntry(entry) /\ ~IsParagraphEntry(entry)

\* a rendering that gives an entry: a text that is not blank
GivesEntry(content) == IsStr(content) /\ Strip(content.s) # <<>>

\* the articles tier emits: some article of the provision renders text
ArticlesEmit ==
    /\ HasKey(node, K_Article)
    /\ \E i \in 1..Len(Elements(Item(node, K_Article))) :
           GivesEntry(process_article(Elements(Item(node, K_Article))[i]))

\* the paragraphs tier emits: it is reached and some paragraph renders text
ParagraphsEmit ==
    /\ ~ArticlesEmit
    /\ HasKey(node, K_Paragraph)
    /\ \E i \in 1..Len(Elements(Item(node, K_Paragraph))) :
           GivesEntry(process_paragraph_content(Elements(Item(node, K_Paragraph))[i]))

\* C22: at most one tier of process_supplementary_provision contributes: if
\* the articles tier emits an entry the result holds article entries only;
\* paragraph entries are emitted only when the articles tier emitted none;
\* the single fallback entry only when neither tier emitted any.
C22_OneTier ==
    (fpc = "returned" /\ IsDict(node)) =>
        /\ ArticlesEmit =>
              \A i \in 1..Len(result.entries) : IsArticleEntry(result.entries[i])
        /\ (\E i \in 1..Len(result.entries) : IsParagraphEntry(result.entries[i]))
              => /\ ~ArticlesEmit
                 /\ \A i \in 1..Len(result.entries) : IsParagraphEntry(result.entries[i])
        /\ (\E i \in 1..Len(result.entries) : IsFallbackEntry(result.entries[i]))
              => /\ ~ArticlesEmit
                 /\ ~ParagraphsEmit
                 /\ Len(result.entries) = 1

\* a provision whose articles render nothing, whose paragraphs render text
\* and which holds a text leaf: paragraph entries only
C22_Witness ==
    /\ fpc = "returned"
    /\ IsDict(node)
    /\ HasKey(node, K_Article) /\ HasKey(node, K_Paragraph) /\ HasKey(node, K_Other)
    /\ ParagraphsEmit
    /\ Len(result.entries) = 2
    /\ \A i \in 1..Len(result.entries) : IsParagraphEntry(result.entries[i])

\* C24: the provisional title is "title - label (number)" when the provision
\* has a non-empty amendment law number and "title - label" otherwise, the
\* label being that of the provision or "Supplementary Provision n" with n
\* its 0-based position plus one; the title of every returned entry starts
\* with it.
C24_ProvisionalTitle ==
    (fpc = "returned" /\ IsDict(node)) =>
        \A i \in 1..Len(result.entries) :
            StartsWith(result.entries[i].title, ProvisionalTitle)

\* the second provision of a document, without a label and with a number
C24_Witness ==
    /\ fpc = "returned"
    /\ IsDict(node)
    /\ prov_idx = 1
    /\ main_title = <<"t">>
    /\ ~HasKey(node, K_SupplProvisionLabel)
    /\ HasKey(node, K_AtAmendLawNum)
    /\ Item(node, K_AtAmendLawNum) # EmptyStr
    /\ Len(result.entries) = 1
    /\ result.entries[1].title =
           <<"t">> \o S_Dash \o S_SupplementaryProvision \o <<"2", " ", "(", "m", ")">>

-----------------------------------------------------------------------------

\* the positions, among their siblings, of the articles and of the
\* paragraphs of the provision that give an entry
EmittingArticles ==
    SelectSeq([i \in 1..Len(Elements(Item(node, K_Article))) |-> i],
              LAMBDA i : GivesEntry(process_article(Elements(Item(node, K_Article))[i])))
EmittingParagraphs ==
    SelectSeq([i \in 1..Len(Elements(Item(node, K_Paragraph))) |-> i],
              LAMBDA i : GivesEntry(process_paragraph_content(
                                        Elements(Item(node, K_Paragraph))[i])))

\* the title of the entry of the article at position i: its own title, or
\* its ordinal
ArticleTitleAt(i) ==
    ProvisionalTitle \o S_Dash
        \o (IF HasKey(Elements(Item(node, K_Article))[i], K_ArticleTitle)
            THEN PyStr(Item(Elements(Item(node, K_Article))[i], K_ArticleTitle))
            ELSE S_ArticleSp \o IntToStr(i))

\* the title of the entry of the paragraph at position i: its own number if
\* it has one that is not empty, or its ordinal
ParagraphTitleAt(i) ==
    ProvisionalTitle \o S_Paragraph
        \o (IF /\ HasKey(Elements(Item(node, K_Paragraph))[i], K_ParagraphNum)
               /\ Item(Elements(Item(node, K_Paragraph))[i], K_ParagraphNum) # EmptyStr
            THEN PyStr(Item(Elements(Item(node, K_Paragraph))[i], K_ParagraphNum))
            ELSE IntToStr(i))

\* C23: each article entry of process_supplementary_provision is titled with
\* the provisional title and the article's title, or its 1-based ordinal
\* among its siblings when it has none; each paragraph entry with
\* "Paragraph n", n being the paragraph's own number or else its 1-based
\* ordinal; for a lone article or paragraph as for a sequence, and when the
\* paragraph number is present but empty.
C23_EntryTitles ==
    (fpc = "returned" /\ IsDict(node)) =>
        /\ ArticlesEmit =>
              /\ Len(result.entries) = Len(EmittingArticles)
              /\ \A j \in 1..Len(EmittingArticles) :
                     result.entries[j].title = ArticleTitleAt(EmittingArticles[j])
        /\ ParagraphsEmit =>
              /\ Len(result.entries) = Len(EmittingParagraphs)
              /\ \A j \in 1..Len(EmittingParagraphs) :
                     result.entries[j].title = ParagraphTitleAt(EmittingParagraphs[j])

-----------------------------------------------------------------------------

\* the provision with its lone article and its lone paragraph encoded as
\* sequences of one
Listed(prov) ==
    Dict(prov.k,
         [i \in 1..Len(prov.k) |->
             IF prov.k[i] \in {K_Article, K_Paragraph} /\ IsDict(prov.v[i])
             THEN List(<<prov.v[i]>>) ELSE prov.v[i]])

\* C26: a provision whose lone article or lone paragraph is encoded as a
\* single object yields from process_supplementary_provision exactly the
\* entries (titles and texts) of the same content encoded as a sequence of
\* one, also when the article has no title or the paragraph has its own
\* number.
C26_EncodingsAgree ==
    (fpc = "returned" /\ IsDict(node) /\ Listed(node) # node) =>
        result = process_supplementary_provision(Listed(node), prov_idx, main_title)

-----------------------------------------------------------------------------

\* C25: extract_all_text_fields returns exactly the str values stored under
\* the text key anywhere in the tree, each trimmed, the blank ones omitted, in
\* depth-first order (the fields of an object in field order, the elements
\* of a sequence in order); str values under other keys are not collected.
C25_TextLeaves ==
    fpc = "returned" =>
        /\ IsList(result)
        /\ result.v = [i \in 1..Len(Trimmed(TextLeavesOf(node))) |->
                          Str(Trimmed(TextLeavesOf(node))[i])]

\* a tree with a padded leaf and a blank leaf in a nested sequence, a str
\* under another key and a leaf of its own
C25_Witness ==
    /\ fpc = "returned"
    /\ IsDict(node)
    /\ HasKey(node, K_SupplProvisionLabel) /\ IsStr(Item(node, K_SupplProvisionLabel))
    /\ HasKey(node, K_Other) /\ IsList(Item(node, K_Other))
    /\ Len(TextLeavesOf(node)) = 3
    /\ result = List(<<Str(<<"b">>), Text_d>>)

-----------------------------------------------------------------------------

\* the str values held at any depth under a key that starts with "@"
RECURSIVE AttributeValues(_)
AttributeValues(x) ==
    IF ~(IsDict(x) \/ IsList(x)) THEN {}
    ELSE UNION {AttributeValues(x.v[i]) : i \in 1..Len(x.v)}
         \cup (IF IsDict(x)
                THEN {x.v[i].s : i \in {j \in 1..Len(x.v) :
                                          /\ Head(x.k[j]) = "@"
                                          /\ IsStr(x.v[j])}}
                ELSE {})

\* C27: the text process_paragraph_content renders for a paragraph never
\* contains the value of an attribute field, a field whose key starts with
\* "@", held at any depth under its direct sentence, its list or its table.
C27_AttributesIgnored ==
    (fpc = "returned" /\ IsDict(node) /\ IsStr(result)) =>
        \A i \in 1..Len(node.k) :
            node.k[i] \in {K_ParagraphSentence, K_List, K_TableStruct} =>
                \A value \in AttributeValues(node.v[i]) :
                    value # <<>> => ~Contains(value, result.s)

(***************************************************************************)
(* continuous_download: the download of one file, resumed and retried      *)
(***************************************************************************)

MaxRetry == 2
MaxBytes == 2

\* the sizes a file can have here: up to one byte more than any content length
Sizes == 0..(MaxBytes + 1)
\* what can be at a path when the call starts
PathStates == {NoFile} \cup {FileOf(size) : size \in Sizes}

InitDownload ==
    /\ DirIdle /\ DocIdle /\ FnIdle /\ ChatIdle
    /\ given_retry \in (-1)..MaxRetry
    /\ retry = given_retry
    /\ tmp_path \in PathStates
    /\ file_path = NoFile
    /\ total_size = 0
    /\ downloaded_size = 0
    /\ attempts = 0
    /\ outcome = "running"
    /\ dpc = "head"

\* the HEAD request: it raises, or its content-length header (0 when the
\* header is missing) becomes total_size
HeadRequest ==
    /\ dpc = "head"
    /\ \/ /\ outcome' = "raised"
          /\ dpc' = "done"
          /\ UNCHANGED total_size
       \/ /\ total_size' \in 0..MaxBytes
          /\ dpc' = "loop"
          /\ UNCHANGED outcome
    /\ UNCHANGED <<retry, tmp_path, file_path, downloaded_size, attempts,
                   given_retry, chatvars, dirvars, docvars, fnvars>>

\* the top of the loop body: one retry is consumed, and a partial file is
\* resumed from its size unless it is larger than the content length
BeginAttempt ==
    /\ dpc = "loop"
    /\ retry >= 0
    /\ retry' = retry - 1
    /\ attempts' = attempts + 1
    /\ IF tmp_path.is_file
       THEN IF tmp_path.st_size <= total_size
            THEN /\ downloaded_size' = tmp_path.st_size
                 /\ UNCHANGED tmp_path
            ELSE /\ downloaded_size' = 0
                 /\ tmp_path' = NoFile
       ELSE /\ downloaded_size' = 0
            /\ UNCHANGED tmp_path
    /\ dpc' = "download"
    /\ UNCHANGED <<total_size, file_path, given_retry, outcome, chatvars,
                   dirvars, docvars, fnvars>>

\* the file after it was opened for appending
OpenedForAppend(at_path) == IF at_path.is_file THEN at_path ELSE FileOf(0)

\* the try block: opening the file fails, or the file is there and the
\* stream appends some bytes to it before it ends or fails; every exception
\* is caught and logged
Download ==
    /\ dpc = "download"
    /\ \/ UNCHANGED tmp_path
       \/ \E received \in Sizes :
            /\ OpenedForAppend(tmp_path).st_size + received \in Sizes
            /\ tmp_path' = FileOf(OpenedForAppend(tmp_path).st_size + received)
    /\ dpc' = "check"
    /\ UNCHANGED <<retry, total_size, file_path, downloaded_size, attempts,
                   given_retry, outcome, chatvars, dirvars, docvars, fnvars>>

\* the download is complete
CompleteAtLeast(size, total) == size >= total
Complete(size, total) == size = total

\* after the try block: a complete file is renamed and returned, a file that
\* is too large is deleted, and anything else goes round the loop
Evaluate ==
    /\ dpc = "check"
    /\ IF ~tmp_path.is_file
       THEN /\ dpc' = "loop"
            /\ UNCHANGED <<tmp_path, file_path, outcome>>
       ELSE IF Complete(tmp_path.st_size, total_size)
       THEN /\ file_path' = tmp_path
            /\ tmp_path' = NoFile
            /\ outcome' = "file_path"
            /\ dpc' = "done"
       ELSE IF tmp_path.st_size > total_size
       THEN /\ tmp_path' = NoFile
            /\ dpc' = "loop"
            /\ UNCHANGED <<file_path, outcome>>
       ELSE /\ dpc' = "loop"
            /\ UNCHANGED <<tmp_path, file_path, outcome>>
    /\ UNCHANGED <<retry, total_size, downloaded_size, attempts, given_retry,
                   chatvars, dirvars, docvars, fnvars>>

\* the loop condition fails and the function ends without a return
Exhausted ==
    /\ dpc = "loop"
    /\ retry < 0
    /\ outcome' = "None"
    /\ dpc' = "done"
    /\ UNCHANGED <<retry, total_size, tmp_path, file_path, downloaded_size,
                   attempts, given_retry, chatvars, dirvars, docvars, fnvars>>

NextDownload == HeadRequest \/ BeginAttempt \/ Download \/ Evaluate \/ Exhausted

\* every request and every write ends, with a result or with an exception
SpecDownload == InitDownload /\ [][NextDownload]_vars /\ WF_vars(NextDownload)

\* what holds of a call at every moment
C28_Attempts ==
    /\ attempts <= given_retry + 1
    /\ outcome = "file_path" =>
        /\ attempts >= 1
        /\ file_path = FileOf(total_size)
        /\ ~tmp_path.is_file
    /\ file_path.is_file => file_path.st_size = total_size /\ outcome = "file_path"
    /\ dpc \in {"loop", "done"} /\ attempts >= 1 =>
        ~(tmp_path.is_file /\ tmp_path.st_size > total_size)
    /\ dpc = "done" /\ outcome = "None" =>
        /\ attempts = given_retry + 1
        /\ ~file_path.is_file
\* C28: a call of continuous_download ends, after at most retry + 1 download
\* attempts; it returns file_path only after an attempt, with the temporary
\* file renamed to file_path and of exactly the content length the HEAD
\* request reported; a temporary file larger than that is deleted, never
\* renamed; when the attempts are exhausted it returns no path.
C28_BoundedDownload == []C28_Attempts /\ <>(dpc = "done")
\* the last attempt received more than the content length, its file was
\* deleted and no path is returned
C28_Witness ==
    /\ dpc = "done" /\ outcome = "None"
    /\ attempts = MaxRetry + 1
    /\ tmp_path = NoFile
    /\ total_size = 1

(***************************************************************************)
(* process_chat_request: one chat request, its conversation, its two       *)
(* messages and the agent's answer.  The database and the agent are the    *)
(* environment: a commit or a query succeeds or raises, the agent returns  *)
(* or raises.  conversation.id is read as the id the conversation has.     *)
(***************************************************************************)

K_output == <<"o", "u", "t", "p", "u", "t">>
K_error == <<"e", "r", "r", "o", "r">>
K_answer == <<"a", "n", "s", "w", "e", "r">>
Role_user == <<"u", "s", "e", "r">>
Role_assistant == <<"a", "s", "s", "i", "s", "t", "a", "n", "t">>
\* ERROR_MESSAGES['UNKNOWN_ERROR'], one character standing for the text
UNKNOWN_ERROR == <<"E">>

\* the messages of the exceptions the environment raises
DbError == <<"d", "b">>
AgentError == <<"l", "l", "m">>

\* f"Conversation with id {conversation_id} not found"
NotFound(conversation_id) ==
    <<"C", "o", "n", "v", "e", "r", "s", "a", "t", "i", "o", "n", " ",
      "w", "i", "t", "h", " ", "i", "d", " ">>
    \o PyStr(conversation_id) \o <<" ", "n", "o", "t", " ", "f", "o", "u", "n", "d">>

\* what query returns when the agent raised e
QueryError(e) ==
    Dict(<<K_error>>,
         <<Str(<<"E", "r", "r", "o", "r", " ", "p", "r", "o", "c", "e", "s", "s",
                 "i", "n", "g", " ", "q", "u", "e", "r", "y", ":", " ">> \o e)>>)

\* what the agent returns when it does not raise
AgentReturns ==
    { Dict(<<K_output>>, <<Str(<<"y", "e", "s">>)>>),
      Dict(<<K_answer>>, <<Str(<<"n", "o">>)>>) }

\* agent_response.get("output", str(agent_response))
ResponseText(response) == DictGet(response, K_output, Str(PyStr(response)))

\* the id of a conversation, as the database gives the next one
NextId(conversations) == Cardinality(conversations) + 1

ChatRequests ==
    [message : {Str(<<"q">>), EmptyStr},
     conversation_id : {Null, Num(0), Num(1), Num(2)},
     user_id : {Null, Num(1)}]

Databases ==
    [conversations : {{}, {1}}, messages : {<<>>}]

InitChat ==
    /\ DirIdle /\ DocIdle /\ FnIdle /\ DlIdle
    /\ chat_request \in ChatRequests
    /\ db \in Databases
    /\ conversation = Unbound
    /\ agent_response = Null
    /\ chat_response = Null
    /\ failure = Null
    /\ steps = <<>>
    /\ cpc = "start"

Step(what, id) == [what |-> what, id |-> id]

\* conversation.id if "conversation" in locals() else -1
ConversationIdOnly(local) == local.id
ConversationIdOrDefault(local) == IF local.bound THEN local.id ELSE -1

\* the except clause: the exception e becomes the response
Handled(e) ==
    /\ chat_response' =
        [response |-> UNKNOWN_ERROR \o <<":", " ">> \o e,
         conversation_id |-> ConversationIdOrDefault(conversation),
         sources |-> <<>>]
    /\ failure' = Str(e)
    /\ cpc' = "done"

\* conversation = get_or_create_conversation(...)
ObtainConversation ==
    /\ cpc = "start"
    /\ IF Truthy(chat_request.conversation_id)
       THEN \/ /\ Handled(DbError)
               /\ UNCHANGED <<db, conversation, steps>>
            \/ IF chat_request.conversation_id.n \in db.conversations
               THEN /\ conversation' =
                        [bound |-> TRUE, id |-> chat_request.conversation_id.n]
                    /\ steps' = Append(steps,
                        Step("existing", chat_request.conversation_id.n))
                    /\ cpc' = "user"
                    /\ UNCHANGED <<db, chat_response, failure>>
               ELSE /\ Handled(NotFound(chat_request.conversation_id))
                    /\ UNCHANGED <<db, conversation, steps>>
       ELSE \/ /\ Handled(DbError)
               /\ UNCHANGED <<db, conversation, steps>>
            \/ /\ chat_request.user_id # Null
               /\ db' = [db EXCEPT !.conversations = @ \cup {NextId(@)}]
               /\ conversation' =
                    [bound |-> TRUE, id |-> NextId(db.conversations)]
               /\ steps' = Append(steps,
                    Step("created", NextId(db.conversations)))
               /\ cpc' = "user"
               /\ UNCHANGED <<chat_response, failure>>
    /\ UNCHANGED <<chat_request, agent_response, dlvars, dirvars, docvars, fnvars>>

\* save_message: the message is committed, or the commit raises
Saves(role, content, then) ==
    \/ /\ db' = [db EXCEPT !.messages = Append(@,
                    [conversation_id |-> conversation.id, role |-> role,
                     content |-> content])]
       /\ steps' = Append(steps, Step(role, conversation.id))
       /\ then
    \/ /\ Handled(DbError)
       /\ UNCHANGED <<db, steps>>

\* save_message(db, conversation.id, "user", chat_request.message)
SaveUserMessage ==
    /\ cpc = "user"
    /\ Saves("user", chat_request.message,
             cpc' = "agent" /\ UNCHANGED <<chat_response, failure>>)
    /\ UNCHANGED <<chat_request, conversation, agent_response, dlvars, dirvars,
                   docvars, fnvars>>

\* agent_response = law_agent.query(chat_request.message): what the agent
\* returns, or the error value made of what it raised
QueryAgent ==
    /\ cpc = "agent"
    /\ \/ /\ agent_response' \in AgentReturns
          /\ UNCHANGED failure
       \/ /\ agent_response' = QueryError(AgentError)
          /\ failure' = Str(AgentError)
    /\ steps' = Append(steps, Step("agent", conversation.id))
    /\ cpc' = "assistant"
    /\ UNCHANGED <<chat_request, db, conversation, chat_response, dlvars,
                   dirvars, docvars, fnvars>>

\* save_message(db, conversation.id, "assistant", response_text) and the
\* response that is returned after it
SaveAssistantMessage ==
    /\ cpc = "assistant"
    /\ Saves("assistant", ResponseText(agent_response),
             /\ chat_response' =
                    [response |-> ResponseText(agent_response).s,
                     conversation_id |-> conversation.id,
                     sources |-> <<>>]
             /\ cpc' = "done"
             /\ UNCHANGED failure)
    /\ UNCHANGED <<chat_request, conversation, agent_response, dlvars, dirvars,
                   docvars, fnvars>>

NextChat ==
    ObtainConversation \/ SaveUserMessage \/ QueryAgent \/ SaveAssistantMessage

SpecChat == InitChat /\ [][NextChat]_vars

\* the conversations the call obtained so far
Obtained == SelectSeq(steps, LAMBDA step : step.what \in {"created", "existing"})

C29_NotFoundWitness ==
    /\ cpc = "done"
    /\ chat_request.conversation_id = Num(2)
    /\ failure = Str(NotFound(Num(2)))
    /\ chat_response.conversation_id = -1

\* what the steps of the call were, in order
Whats == [i \in 1..Len(steps) |-> steps[i].what]
\* the messages of a role the call saved
SavedAs(role) == SelectSeq(db.messages, LAMBDA message : message.role = role)

\* C30: the steps of a call are, in this order, the conversation obtained
\* (the existing one when conversation_id is supplied, never a new one; a
\* new one otherwise), the user message committed, the agent queried, the
\* assistant message committed; at most one user and one assistant message
\* are saved, and a call that queried the agent has committed an assistant
\* message when it ends.
C30_StepOrder ==
    /\ \E first \in {"created", "existing"} :
        Whats = SubSeq(<<first, "user", "agent", "assistant">>, 1, Len(steps))
    /\ \A i \in 1..Len(steps) :
        /\ chat_request.conversation_id # Null => steps[i].what # "created"
        /\ chat_request.conversation_id = Null => steps[i].what # "existing"
        /\ steps[i].what = "existing" => steps[i].id = chat_request.conversation_id.n
    /\ Len(SavedAs("user")) <= 1 /\ Len(SavedAs("assistant")) <= 1
    /\ (\E i \in 1..Len(steps) : steps[i].what = "agent") =>
        Len(SavedAs("user")) = 1
    /\ cpc = "done" /\ (\E i \in 1..Len(steps) : steps[i].what = "agent") =>
        Len(SavedAs("assistant")) = 1

====
